---- MODULE Spec2Model ----
(***************************************************************************)
(* TEASER: the type-element resolver (data/input/buildingelement_input_json *)
(* .py) and the single-family-dwelling archetype estimator                  *)
(* (teaser/logic/archetypebuildings/bmvbs/singlefamilydwelling.py).         *)
(*                                                                          *)
(* Python strings that are compared by prefix (database keys, class names)  *)
(* are sequences of one-character strings.  An attribute holds None (<<>>)  *)
(* or Some(v) (<<v>>).  Objects (layers, materials) carry an identity: the  *)
(* index at which they were allocated.                                      *)
(***************************************************************************)
EXTENDS Integers, Sequences, FiniteSets, TLC

VARIABLES
    db,         \* data_class.element_bind: ordered dict, a sequence of [key, value]
    elems,      \* the BuildingElement objects constructed so far
    mats,       \* the Material objects constructed so far (index = identity)
    nLayers,    \* number of Layer objects constructed so far (identity counter)
    ncalls,     \* number of resolver calls made so far
    last,       \* the last resolver call: arguments, element before, outcome
    bldg,       \* the SingleFamilyDwelling of the project, once constructed
    gen,        \* the last generate_archetype call: building before, outcome
    procs,      \* the callers inside load_type_element: locals and position
    prj,        \* the Project: its buildings, settings and data handle
    built       \* the dwelling's five categorical values as its constructor
                \* read them, and the assignments to its attributes since

vars == <<db, elems, mats, nLayers, ncalls, last, bldg, gen, procs, prj, built>>

----------------------------------------------------------------------------
(* Bounds of the model *)

MaxRecords == 2     \* type-element records in a database (besides "version")
MaxYear == 3        \* years of construction are 0..MaxYear
MaxFloors == 2      \* number_of_floors is 0..MaxFloors
MaxGenerations == 2 \* generate_archetype calls on the building
CallNumbers == {1, 2}       \* a behaviour makes at most these resolver calls
SingleIds == {1}            \* SpecResolver: one element, of any class
PairIds == {1, 2}           \* SpecPair: two elements

----------------------------------------------------------------------------
(* Values *)

None == <<>>
Some(v) == <<v>>

RECURSIVE Reverse(_)
Reverse(s) == IF s = <<>> THEN <<>> ELSE Reverse(Tail(s)) \o <<Head(s)>>

\* str.startswith
StartsWith(s, p) == Len(p) <= Len(s) /\ SubSeq(s, 1, Len(p)) = p

\* class names, type(element).__name__
OuterWall == <<"O","u","t","e","r","W","a","l","l">>
InnerWall == <<"I","n","n","e","r","W","a","l","l">>
Window == <<"W","i","n","d","o","w">>
Rooftop == <<"R","o","o","f","t","o","p">>
GroundFloor == <<"G","r","o","u","n","d","F","l","o","o","r">>
Ceiling == <<"C","e","i","l","i","n","g">>
Floor == <<"F","l","o","o","r">>
Door == <<"D","o","o","r">>

ElementTypes == {OuterWall, InnerWall, Window, Rooftop, GroundFloor, Ceiling, Floor, Door}

VersionKey == <<"v","e","r","s","i","o","n">>

Years == 0..MaxYear
Constructions == {"iwu_heavy", "Kunststofffenster, Isolierverglasung"}

\* material ids present in data_class.material_bind
MaterialIds == {1, 2}

----------------------------------------------------------------------------
(* The type-element database *)

LayerDef(id, thickness, material_id) ==
    [id |-> id, thickness |-> thickness, material_id |-> material_id]

\* a record with the coefficients of an opaque outer element
OpaqueRecord(lo, hi, ct, base, layers) ==
    [building_age_group |-> <<lo, hi>>, construction_type |-> ct,
     inner_radiation |-> base + 1, inner_convection |-> base + 2,
     outer_radiation |-> base + 3, outer_convection |-> base + 4,
     layer |-> layers]

\* a record with the coefficients of an inner element
InnerRecord(lo, hi, ct, base, layers) ==
    [building_age_group |-> <<lo, hi>>, construction_type |-> ct,
     inner_radiation |-> base + 1, inner_convection |-> base + 2,
     layer |-> layers]

\* a record with the coefficients of a window
WindowRecord(lo, hi, ct, base, layers) ==
    [building_age_group |-> <<lo, hi>>, construction_type |-> ct,
     inner_radiation |-> base + 1, inner_convection |-> base + 2,
     outer_radiation |-> base + 3, outer_convection |-> base + 4,
     g_value |-> base + 5, a_conv |-> base + 6,
     shading_g_total |-> base + 7, shading_max_irr |-> base + 8,
     layer |-> layers]

Entry(k, v) == [key |-> k, value |-> v]

VersionEntry == Entry(VersionKey, "0.7")

\* The records a database is drawn from.  1 and 2 overlap in year 2; 4 names a
\* material id that data_class.material_bind does not hold.
PoolIndices == {1, 2, 3, 4}
Pool(i) ==
    CASE i = 1 -> Entry(OuterWall \o <<"_","a">>,
                        OpaqueRecord(0, 2, "iwu_heavy", 10,
                                     <<LayerDef(1, 5, 1), LayerDef(2, 7, 2)>>))
      [] i = 2 -> Entry(OuterWall \o <<"_","b">>,
                        OpaqueRecord(2, 3, "iwu_heavy", 20,
                                     <<LayerDef(1, 3, 1), LayerDef(2, 4, 1)>>))
      [] i = 3 -> Entry(Window \o <<"_","a">>,
                        WindowRecord(0, 3, "Kunststofffenster, Isolierverglasung", 30,
                                     <<LayerDef(1, 1, 2)>>))
      [] i = 4 -> Entry(InnerWall \o <<"_","a">>,
                        InnerRecord(1, 3, "iwu_heavy", 40,
                                    <<LayerDef(1, 2, 1), LayerDef(2, 8, 9),
                                      LayerDef(3, 6, 2)>>))

\* sequences of at most n pool indices
RECURSIVE IndexSeqs(_)
IndexSeqs(n) ==
    IF n = 0 THEN {<<>>}
    ELSE LET shorter == IndexSeqs(n - 1)
         IN shorter \cup {Append(s, i) : s \in shorter, i \in PoolIndices}

Distinct(s) == \A i, j \in 1..Len(s) : i # j => s[i] # s[j]

RECURSIVE EntriesOf(_)
EntriesOf(s) == IF s = <<>> THEN <<>> ELSE <<Pool(Head(s))>> \o EntriesOf(Tail(s))

\* a database: the "version" entry, then at most MaxRecords records
Databases == {<<VersionEntry>> \o EntriesOf(s) :
                 s \in {t \in IndexSeqs(MaxRecords) : Distinct(t)}}

----------------------------------------------------------------------------
(* Building elements, layers, materials *)

\* the coefficients _set_basic_data may write
CoefficientNames == {"inner_radiation", "inner_convection", "outer_radiation",
                     "outer_convection", "g_value", "a_conv",
                     "shading_g_total", "shading_max_irr"}

\* BuildingElement(): a new element of class t, nothing resolved yet
NewBuildingElement(t) ==
    [type |-> t,
     building_age_group |-> None, construction_type |-> None,
     inner_radiation |-> None, inner_convection |-> None,
     outer_radiation |-> None, outer_convection |-> None,
     g_value |-> None, a_conv |-> None,
     shading_g_total |-> None, shading_max_irr |-> None,
     layer |-> <<>>,
     name |-> None, tilt |-> None, orientation |-> None, area |-> None]

\* Layer(element): a new layer with identity oid, appended to the element's layers
NewLayer(el, oid) ==
    [el EXCEPT !.layer = Append(@, [oid |-> oid, id |-> None, thickness |-> None,
                                    material |-> None])]

\* Material(layer): a new material owned by the layer with identity oid
NewMaterial(oid) == [parent |-> oid, material_id |-> None]

\* mat_input.load_material_id(material, mat_id, data_class): populates the
\* material, fails when data_class.material_bind has no mat_id
LoadMaterialId(mat, mat_id) ==
    IF mat_id \in MaterialIds
    THEN [mat |-> [mat EXCEPT !.material_id = Some(mat_id)], err |-> "ok"]
    ELSE [mat |-> mat, err |-> "KeyError"]

----------------------------------------------------------------------------
(* _set_basic_data *)

IsOpaqueOuter(t) == t = OuterWall \/ t = Rooftop \/ t = Door

\* mutant: every class but Window takes the branch of the opaque outer elements
BasicDataFields_OuterForAll(t) ==
    <<"building_age_group", "construction_type", "inner_radiation", "inner_convection">>
    \o (IF t # Window
        THEN <<"inner_radiation", "inner_convection", "outer_radiation", "outer_convection">>
        ELSE <<"outer_radiation", "outer_convection", "g_value", "a_conv",
               "shading_g_total", "shading_max_irr">>)

\* the keys of element_in that _set_basic_data reads, in the order of its
\* assignments, for an element of class t
BasicDataFields(t) ==
    <<"building_age_group", "construction_type", "inner_radiation", "inner_convection">>
    \o (IF IsOpaqueOuter(t)
        THEN <<"inner_radiation", "inner_convection", "outer_radiation", "outer_convection">>
        ELSE IF t = Window
        THEN <<"outer_radiation", "outer_convection", "g_value", "a_conv",
               "shading_g_total", "shading_max_irr">>
        ELSE <<>>)

\* element.f = element_in[f] for the fields from position i on; a key that
\* element_in lacks raises KeyError and leaves the earlier assignments done
RECURSIVE AssignFields(_, _, _, _)
AssignFields(el, element_in, fields, i) ==
    IF i > Len(fields) THEN [el |-> el, err |-> "ok"]
    ELSE IF fields[i] \notin DOMAIN element_in THEN [el |-> el, err |-> "KeyError"]
    ELSE AssignFields([el EXCEPT ![fields[i]] = Some(element_in[fields[i]])],
                      element_in, fields, i + 1)

SetBasicData(el, element_in) ==
    AssignFields(el, element_in, BasicDataFields(el.type), 1)

----------------------------------------------------------------------------
(* The layer loop shared by both resolver operations.  A run carries             *)
(* [el, mats, nl, err, applied]: the element, the materials and the number of   *)
(* layers constructed so far, the exception raised ("ok": none) and the keys of  *)
(* the records applied.                                                          *)

\* mutant: reverse_layers is ignored
LayerItems_NeverReversed(element_in, reverse_layers) == element_in.layer

\* element_in["layer"].items(), reversed when reverse_layers
LayerItems(element_in, reverse_layers) ==
    IF reverse_layers THEN Reverse(element_in.layer) ELSE element_in.layer

\* mutant: a material already constructed for the same material id is reused
AddLayer_SharedMaterial(m, layer_in) ==
    LET oid == m.nl + 1
        n == Len(m.el.layer) + 1
        same == {k \in 1..Len(m.mats) : m.mats[k].material_id = Some(layer_in.material_id)}
        mid == IF same = {} THEN Len(m.mats) + 1 ELSE CHOOSE k \in same : TRUE
        el1 == NewLayer(m.el, oid)
        el2 == [el1 EXCEPT !.layer[n].id = Some(layer_in.id),
                           !.layer[n].thickness = Some(layer_in.thickness),
                           !.layer[n].material = Some(mid)]
        r == LoadMaterialId(NewMaterial(oid), layer_in.material_id)
    IN [m EXCEPT !.el = el2, !.nl = oid,
                 !.mats = IF same = {} THEN Append(@, r.mat) ELSE @,
                 !.err = r.err]

\* the body of the layer loop for one layer definition
AddLayer(m, layer_in) ==
    LET oid == m.nl + 1
        n == Len(m.el.layer) + 1
        mid == Len(m.mats) + 1
        el1 == NewLayer(m.el, oid)
        el2 == [el1 EXCEPT !.layer[n].id = Some(layer_in.id),
                           !.layer[n].thickness = Some(layer_in.thickness),
                           !.layer[n].material = Some(mid)]
        r == LoadMaterialId(NewMaterial(oid), layer_in.material_id)
    IN [m EXCEPT !.el = el2, !.nl = oid, !.mats = Append(@, r.mat), !.err = r.err]

RECURSIVE AddLayers(_, _, _)
AddLayers(m, items, i) ==
    IF i > Len(items) \/ m.err # "ok" THEN m
    ELSE AddLayers(AddLayer(m, items[i]), items, i + 1)

\* mutant: the coefficients copied are those of the category the key names
ApplyRecord_FieldsByKey(m, key, element_in, reverse_layers) ==
    LET t == IF StartsWith(key, InnerWall) THEN InnerWall ELSE m.el.type
        b == AssignFields(m.el, element_in, BasicDataFields(t), 1)
        m1 == [m EXCEPT !.el = b.el, !.err = b.err, !.applied = Append(@, key)]
    IN AddLayers(m1, LayerItems(element_in, reverse_layers), 1)

\* _set_basic_data, then the layer loop
ApplyRecord(m, key, element_in, reverse_layers) ==
    LET b == SetBasicData(m.el, element_in)
        m1 == [m EXCEPT !.el = b.el, !.err = b.err, !.applied = Append(@, key)]
    IN AddLayers(m1, LayerItems(element_in, reverse_layers), 1)

----------------------------------------------------------------------------
(* load_type_element *)

\* mutant: the upper bound of the age-range is exclusive
Matches_ExclusiveUpper(key, element_in, year, construction, element_type) ==
    /\ key # VersionKey
    /\ element_in.building_age_group[1] <= year
    /\ year < element_in.building_age_group[2]
    /\ element_in.construction_type = construction
    /\ StartsWith(key, element_type)

\* mutant: the construction type is not compared
Matches_AnyConstruction(key, element_in, year, construction, element_type) ==
    /\ key # VersionKey
    /\ element_in.building_age_group[1] <= year
    /\ year <= element_in.building_age_group[2]
    /\ StartsWith(key, element_type)

\* the condition under which the loop applies the record stored under key
Matches(key, element_in, year, construction, element_type) ==
    /\ key # VersionKey
    /\ element_in.building_age_group[1] <= year
    /\ year <= element_in.building_age_group[2]
    /\ element_in.construction_type = construction
    /\ StartsWith(key, element_type)

RECURSIVE ScanRecords(_, _, _, _, _, _, _)
ScanRecords(m, bind, i, year, construction, element_type, reverse_layers) ==
    IF i > Len(bind) \/ m.err # "ok" THEN m
    ELSE ScanRecords(
            IF Matches(bind[i].key, bind[i].value, year, construction, element_type)
            THEN ApplyRecord(m, bind[i].key, bind[i].value, reverse_layers)
            ELSE m,
            bind, i + 1, year, construction, element_type, reverse_layers)

\* element_type is None or Some(string)
LoadTypeElement(el, year, construction, bind, element_type, reverse_layers, ms, nl) ==
    ScanRecords([el |-> el, mats |-> ms, nl |-> nl, err |-> "ok", applied |-> <<>>],
                bind, 1, year, construction,
                IF element_type = None THEN el.type ELSE element_type[1],
                reverse_layers)

----------------------------------------------------------------------------
(* load_type_element_by_key *)

HasKey(bind, key_str) == \E i \in 1..Len(bind) : bind[i].key = key_str
Lookup(bind, key_str) == bind[CHOOSE i \in 1..Len(bind) : bind[i].key = key_str].value

\* mutant: an absent key is skipped silently (dict.get)
LoadTypeElementByKey_Silent(el, key_str, bind, reverse_layers, ms, nl) ==
    LET m == [el |-> el, mats |-> ms, nl |-> nl, err |-> "ok", applied |-> <<>>]
    IN IF ~HasKey(bind, key_str) THEN m
       ELSE IF key_str = VersionKey THEN [m EXCEPT !.err = "TypeError"]
       ELSE ApplyRecord(m, key_str, Lookup(bind, key_str), reverse_layers)

\* mutant: reverse_layers is not passed on
LoadTypeElementByKey_NoReverse(el, key_str, bind, reverse_layers, ms, nl) ==
    LET m == [el |-> el, mats |-> ms, nl |-> nl, err |-> "ok", applied |-> <<>>]
    IN IF ~HasKey(bind, key_str) THEN [m EXCEPT !.err = "KeyError"]
       ELSE IF key_str = VersionKey THEN [m EXCEPT !.err = "TypeError"]
       ELSE ApplyRecord(m, key_str, Lookup(bind, key_str), FALSE)

LoadTypeElementByKey(el, key_str, bind, reverse_layers, ms, nl) ==
    LET m == [el |-> el, mats |-> ms, nl |-> nl, err |-> "ok", applied |-> <<>>]
    IN IF ~HasKey(bind, key_str) THEN [m EXCEPT !.err = "KeyError"]
       \* the "version" entry holds a string: indexing it by a key is a TypeError
       ELSE IF key_str = VersionKey THEN [m EXCEPT !.err = "TypeError"]
       ELSE ApplyRecord(m, key_str, Lookup(bind, key_str), reverse_layers)

----------------------------------------------------------------------------
(* The resolver as a state machine: a caller constructs elements and calls   *)
(* the two operations on them, against one database.                         *)

\* the category overrides callers pass as element_type
ElementTypeArgs == {None, Some(InnerWall)}

\* the keys callers pass as key_str
KeyArgs == {Pool(i).key : i \in PoolIndices} \cup {VersionKey}

NoBuilding == [constructed |-> FALSE]
NoGeneration == [count |-> 0]

\* no caller is inside load_type_element
Procs == {1, 2}
NoProcs == [p \in Procs |-> [pc |-> "idle"]]

\* no Project has been constructed
NoProject == [constructed |-> FALSE]

\* no dwelling has been constructed
NotBuilt == [assigned |-> <<>>]

NoCall == [op |-> "none", e |-> 0, year |-> 0, construction |-> "",
           element_type |-> None, key_str |-> <<>>, reverse_layers |-> FALSE,
           pre |-> NewBuildingElement(<<>>), preMats |-> 0, preLayers |-> 0,
           err |-> "ok", applied |-> <<>>]

RInit ==
    /\ db \in Databases
    /\ elems = <<>>
    /\ mats = <<>>
    /\ nLayers = 0
    /\ ncalls = 0
    /\ last = NoCall
    /\ bldg = NoBuilding
    /\ gen = NoGeneration
    /\ procs = NoProcs
    /\ prj = NoProject
    /\ built = NotBuilt

\* element = OuterWall(), Window(), ...
Construct(t, ids) ==
    /\ Len(elems) + 1 \in ids
    /\ elems' = Append(elems, NewBuildingElement(t))
    /\ UNCHANGED <<db, mats, nLayers, ncalls, last, bldg, gen, procs, prj, built>>

\* mutant: a reversed load reverses the layers of the applied records in the
\* database itself
CallLoadTypeElement_ReversesInPlace(e, year, construction, element_type, reverse_layers) ==
    /\ ncalls + 1 \in CallNumbers
    /\ LET m == LoadTypeElement(elems[e], year, construction, db, element_type,
                                reverse_layers, mats, nLayers)
           applied == {m.applied[k] : k \in 1..Len(m.applied)}
       IN /\ elems' = [elems EXCEPT ![e] = m.el]
          /\ mats' = m.mats
          /\ nLayers' = m.nl
          /\ last' = [op |-> "load_type_element", e |-> e, year |-> year,
                      construction |-> construction, element_type |-> element_type,
                      key_str |-> <<>>, reverse_layers |-> reverse_layers,
                      pre |-> elems[e], preMats |-> Len(mats), preLayers |-> nLayers,
                      err |-> m.err, applied |-> m.applied]
          /\ db' = [i \in 1..Len(db) |->
                       IF reverse_layers /\ db[i].key \in applied
                       THEN [db[i] EXCEPT !.value.layer = Reverse(@)]
                       ELSE db[i]]
    /\ ncalls' = ncalls + 1
    /\ UNCHANGED <<bldg, gen, procs, prj, built>>

\* load_type_element(elems[e], year, construction, data_class, element_type, reverse_layers)
CallLoadTypeElement(e, year, construction, element_type, reverse_layers) ==
    /\ ncalls + 1 \in CallNumbers
    /\ LET m == LoadTypeElement(elems[e], year, construction, db, element_type,
                                reverse_layers, mats, nLayers)
       IN /\ elems' = [elems EXCEPT ![e] = m.el]
          /\ mats' = m.mats
          /\ nLayers' = m.nl
          /\ last' = [op |-> "load_type_element", e |-> e, year |-> year,
                      construction |-> construction, element_type |-> element_type,
                      key_str |-> <<>>, reverse_layers |-> reverse_layers,
                      pre |-> elems[e], preMats |-> Len(mats), preLayers |-> nLayers,
                      err |-> m.err, applied |-> m.applied]
    /\ ncalls' = ncalls + 1
    /\ UNCHANGED <<db, bldg, gen, procs, prj, built>>

\* load_type_element_by_key(elems[e], key_str, data_class, reverse_layers)
CallLoadTypeElementByKey(e, key_str, reverse_layers) ==
    /\ ncalls + 1 \in CallNumbers
    /\ LET m == LoadTypeElementByKey(elems[e], key_str, db, reverse_layers,
                                     mats, nLayers)
       IN /\ elems' = [elems EXCEPT ![e] = m.el]
          /\ mats' = m.mats
          /\ nLayers' = m.nl
          /\ last' = [op |-> "load_type_element_by_key", e |-> e, year |-> 0,
                      construction |-> "", element_type |-> None,
                      key_str |-> key_str, reverse_layers |-> reverse_layers,
                      pre |-> elems[e], preMats |-> Len(mats), preLayers |-> nLayers,
                      err |-> m.err, applied |-> m.applied]
    /\ ncalls' = ncalls + 1
    /\ UNCHANGED <<db, bldg, gen, procs, prj, built>>

Calls ==
    \/ \E e \in 1..Len(elems), year \in Years, construction \in Constructions,
          element_type \in ElementTypeArgs, reverse_layers \in BOOLEAN :
          CallLoadTypeElement(e, year, construction, element_type, reverse_layers)
    \/ \E e \in 1..Len(elems), key_str \in KeyArgs, reverse_layers \in BOOLEAN :
          CallLoadTypeElementByKey(e, key_str, reverse_layers)

\* one element of any class
RNext ==
    \/ \E t \in ElementTypes : Construct(t, SingleIds)
    \/ Calls

SpecResolver == RInit /\ [][RNext]_vars

\* two elements, each an OuterWall or a Window
PairTypes == {OuterWall, Window}

PNext ==
    \/ \E t \in PairTypes : Construct(t, PairIds)
    \/ Calls

SpecPair == RInit /\ [][PNext]_vars

----------------------------------------------------------------------------
(* What the claims speak of *)

\* the element the last call was made on, as it is now
Target == elems[last.e]

\* the (layer id, thickness, material id) triples of an element's layers
LayerTriples(el, ms) ==
    [i \in 1..Len(el.layer) |->
        <<el.layer[i].id, el.layer[i].thickness,
          IF el.layer[i].material = None THEN None
          ELSE ms[el.layer[i].material[1]].material_id>>]

\* the triples of a sequence of layer definitions
DefTriples(items) ==
    [i \in 1..Len(items) |->
        <<Some(items[i].id), Some(items[i].thickness), Some(items[i].material_id)>>]

\* an element without the identities of its layers and materials
ElementView(el, ms) == [el EXCEPT !.layer = LayerTriples(el, ms)]

\* the category a call selects records by
RequestedCategory ==
    IF last.element_type = None THEN last.pre.type ELSE last.element_type[1]

IsPrefixOf(p, s) == Len(p) <= Len(s) /\ \A j \in 1..Len(p) : s[j] = p[j]

\* the positions of the records the last load_type_element call had to select
Selected ==
    {i \in 1..Len(db) :
        /\ db[i].key # VersionKey
        /\ IsPrefixOf(RequestedCategory, db[i].key)
        /\ last.year \in db[i].value.building_age_group[1]..db[i].value.building_age_group[2]
        /\ db[i].value.construction_type = last.construction}

RECURSIVE KeysAt(_, _)
KeysAt(S, i) ==
    IF i > Len(db) THEN <<>>
    ELSE (IF i \in S THEN <<db[i].key>> ELSE <<>>) \o KeysAt(S, i + 1)

SelectedKeys == KeysAt(Selected, 1)

\* the record the last call applied last
LastApplied == Lookup(db, last.applied[Len(last.applied)])

\* the layers the last call appended to its element
NewLayers == SubSeq(Target.layer, Len(last.pre.layer) + 1, Len(Target.layer))

IsLoad == last.op = "load_type_element"
IsByKey == last.op = "load_type_element_by_key"

----------------------------------------------------------------------------
\* C1: load_type_element applies a record if and only if its key is not
\* "version", its key starts with the category, its age-range contains the year
\* (both bounds inclusive) and its construction_type equals the technique: a
\* call that returns has applied exactly these records, in database order; a
\* call that raises has applied the first of them, up to the one that raised;
\* when there is none, the element is untouched.
C1_AppliesExactlyMatching ==
    IsLoad =>
        /\ last.err = "ok" => last.applied = SelectedKeys
        /\ last.err # "ok" =>
              /\ last.applied # <<>>
              /\ Len(last.applied) <= Len(SelectedKeys)
              /\ last.applied = SubSeq(SelectedKeys, 1, Len(last.applied))
        /\ Selected = {} => Target = last.pre /\ Len(mats) = last.preMats

\* a returned call that applied one record and skipped another, an age-range
\* bound being hit
C1_Witness ==
    /\ IsLoad /\ last.err = "ok"
    /\ Len(last.applied) = 1
    /\ Len(db) = 3
    /\ \E i \in Selected : last.year = db[i].value.building_age_group[2]

----------------------------------------------------------------------------
\* C2: when several records match in load_type_element, the element's layer
\* sequence after the call is exactly that of the last matching record (no
\* layers of earlier matching records remain), as are its age-range, technique
\* and coefficients.
C2_LastMatchWins ==
    (IsLoad /\ last.err = "ok" /\ last.pre.layer = <<>> /\ Cardinality(Selected) >= 2) =>
        /\ Target.building_age_group = Some(LastApplied.building_age_group)
        /\ Target.construction_type = Some(LastApplied.construction_type)
        /\ LayerTriples(Target, mats)
              = DefTriples(LayerItems(LastApplied, last.reverse_layers))

----------------------------------------------------------------------------
\* C3: with exactly one matching record, load_type_element on an element without
\* layers that returns leaves the (layer id, thickness, material id) triples of
\* the record's layer definitions, in record order when reverse_layers is False
\* and in reversed order when it is True.
C3_LayerOrder ==
    (IsLoad /\ last.err = "ok" /\ last.pre.layer = <<>> /\ Cardinality(Selected) = 1) =>
        LET defs == DefTriples(db[CHOOSE i \in Selected : TRUE].value.layer)
        IN /\ ~last.reverse_layers => LayerTriples(Target, mats) = defs
           /\ last.reverse_layers => LayerTriples(Target, mats) = Reverse(defs)
           /\ Len(Target.layer) = Len(defs)

\* a reversed resolution of a record with two different layers
C3_Witness ==
    /\ IsLoad /\ last.err = "ok" /\ last.pre.layer = <<>> /\ Cardinality(Selected) = 1
    /\ last.reverse_layers
    /\ Len(Target.layer) = 2
    /\ LayerTriples(Target, mats)[1] # LayerTriples(Target, mats)[2]

----------------------------------------------------------------------------
\* C4: when no record matches, load_type_element returns without raising and
\* the element is unchanged: age-range, technique and coefficients keep their
\* pre-call values and no layer (and no material) is added.
C4_NoMatchNoChange ==
    (IsLoad /\ Selected = {}) =>
        /\ last.err = "ok"
        /\ Target = last.pre
        /\ Len(mats) = last.preMats
        /\ nLayers = last.preLayers

\* no record matches although the database holds a record of the category
C4_Witness ==
    /\ IsLoad /\ Selected = {}
    /\ \E i \in 2..Len(db) : IsPrefixOf(RequestedCategory, db[i].key)
    /\ last.pre = NewBuildingElement(last.pre.type)

----------------------------------------------------------------------------
\* C5: load_type_element_by_key with a key absent from the database fails with
\* a KeyError before any mutation: the element's coefficients and layers are
\* those it had before the call, and nothing was constructed.
C5_AbsentKeyFails ==
    (IsByKey /\ \A i \in 1..Len(db) : db[i].key # last.key_str) =>
        /\ last.err = "KeyError"
        /\ Target = last.pre
        /\ Len(mats) = last.preMats
        /\ nLayers = last.preLayers

\* an absent key asked of an element that an earlier call has populated
C5_Witness ==
    /\ IsByKey /\ \A i \in 1..Len(db) : db[i].key # last.key_str
    /\ Len(db) > 1
    /\ last.pre.layer # <<>>

----------------------------------------------------------------------------
\* the category a key encodes: the part before its first "_"
Category(key) ==
    LET cut == CHOOSE i \in 1..Len(key) :
                   key[i] = "_" /\ \A j \in 1..(i - 1) : key[j] # "_"
    IN SubSeq(key, 1, cut - 1)

\* no query for the category of one record, a year and a technique can select
\* two records
NoOverlap(bind) ==
    \A i, j \in 2..Len(bind) :
        i # j =>
            ~ /\ bind[i].value.construction_type = bind[j].value.construction_type
              /\ bind[i].value.building_age_group[1] <= bind[j].value.building_age_group[2]
              /\ bind[j].value.building_age_group[1] <= bind[i].value.building_age_group[2]
              /\ IsPrefixOf(Category(bind[i].key), bind[j].key)

\* the last call resolved a fresh element by a key the database holds
ByKeyOnFresh ==
    /\ IsByKey
    /\ last.key_str # VersionKey
    /\ HasKey(db, last.key_str)
    /\ last.pre = NewBuildingElement(last.pre.type)

\* C6: in a database without overlapping records, resolving a fresh element by
\* the key K of a record R leaves the element in the state (age-range,
\* technique, coefficients, layer triples, exception raised) that resolving a
\* fresh element of the same class by characteristics leaves it in, with R's
\* category, R's technique and any year inside R's age-range.
C6_RoundTrip ==
    (ByKeyOnFresh /\ NoOverlap(db)) =>
        LET R == Lookup(db, last.key_str)
        IN \A year \in Years :
              (R.building_age_group[1] <= year /\ year <= R.building_age_group[2]) =>
                  LET m == LoadTypeElement(last.pre, year, R.construction_type, db,
                                           Some(Category(last.key_str)),
                                           last.reverse_layers,
                                           SubSeq(mats, 1, last.preMats), last.preLayers)
                  IN /\ ElementView(m.el, m.mats) = ElementView(Target, mats)
                     /\ m.err = last.err

\* a record resolved by key while the database holds a record of another
\* category with the same technique and an intersecting age-range, and the
\* year "lower bound + 2" lies inside the record's age-range
C6_Witness ==
    /\ ByKeyOnFresh /\ NoOverlap(db) /\ last.err = "ok"
    /\ Target.layer # <<>>
    /\ Lookup(db, last.key_str).building_age_group[1] + 2
          <= Lookup(db, last.key_str).building_age_group[2]
    /\ \E j \in 2..Len(db) :
          /\ db[j].key # last.key_str
          /\ db[j].value.construction_type = Lookup(db, last.key_str).construction_type
          /\ db[j].value.building_age_group[1] <= Lookup(db, last.key_str).building_age_group[2]

----------------------------------------------------------------------------
InnerCoefficients == {"inner_radiation", "inner_convection"}
OuterCoefficients == {"outer_radiation", "outer_convection"}
WindowAttributes == {"g_value", "a_conv", "shading_g_total", "shading_max_irr"}

\* the element holds the record's value of each coefficient in fs
Received(fs) == \A f \in fs : Target[f] = Some(LastApplied[f])

\* C7: _set_basic_data by category.  From a record that holds them, an
\* OuterWall, Rooftop or Door receives the inner and outer radiation and
\* convection; a Window receives outer radiation and convection, g_value,
\* a_conv, shading_g_total and shading_max_irr; an element of any other
\* category receives the two inner coefficients, and its outer coefficients and
\* window attributes are left as they were.
C7_CoefficientsByCategory ==
    (last.op # "none" /\ last.applied # <<>>) =>
        /\ ( /\ Target.type \in {OuterWall, Rooftop, Door}
             /\ InnerCoefficients \cup OuterCoefficients \subseteq DOMAIN LastApplied )
           => Received(InnerCoefficients \cup OuterCoefficients)
        /\ ( /\ Target.type = Window
             /\ CoefficientNames \subseteq DOMAIN LastApplied )
           => Received(OuterCoefficients \cup WindowAttributes)
        /\ ( /\ Target.type \in {InnerWall, GroundFloor, Ceiling, Floor}
             /\ InnerCoefficients \subseteq DOMAIN LastApplied )
           => /\ Received(InnerCoefficients)
              /\ \A f \in OuterCoefficients \cup WindowAttributes :
                    Target[f] = last.pre[f]

\* a GroundFloor resolved from a record that holds outer coefficients: the
\* record offers more than the category takes
C7_Witness ==
    /\ last.op # "none" /\ last.applied # <<>>
    /\ Target.type = GroundFloor
    /\ OuterCoefficients \subseteq DOMAIN LastApplied
    /\ Target.inner_radiation = Some(LastApplied.inner_radiation)
    /\ Target.outer_radiation = None

----------------------------------------------------------------------------
\* the layers of all elements: <<element, position>>
LayerRefs == UNION {{<<e, i>> : i \in 1..Len(elems[e].layer)} : e \in 1..Len(elems)}

LayerAt(r) == elems[r[1]].layer[r[2]]

\* C8: every layer a resolver operation created owns its own Material: no two
\* layers, of one element or of two, refer to one Material, also when their
\* definitions name the same material id; as many Materials as Layers have been
\* created, and the Materials of the layers a call appended were created by it.
C8_OwnMaterial ==
    /\ \A r \in LayerRefs :
          /\ LayerAt(r).material # None
          /\ LayerAt(r).material[1] \in 1..Len(mats)
          /\ mats[LayerAt(r).material[1]].parent = LayerAt(r).oid
    /\ \A r1, r2 \in LayerRefs :
          r1 # r2 => LayerAt(r1).material # LayerAt(r2).material
    /\ Len(mats) = nLayers
    /\ last.op # "none" =>
          \A i \in 1..Len(NewLayers) : NewLayers[i].material[1] > last.preMats

\* two elements with layers, and layers of both that name the same material id
C8_Witness ==
    /\ Len(elems) = 2
    /\ \E i \in 1..Len(elems[1].layer), j \in 1..Len(elems[2].layer) :
          /\ mats[elems[1].layer[i].material[1]].material_id # None
          /\ mats[elems[1].layer[i].material[1]].material_id
                = mats[elems[2].layer[j].material[1]].material_id
    /\ \E i, j \in 1..Len(elems[2].layer) :
          /\ i # j
          /\ mats[elems[2].layer[i].material[1]].material_id
                = mats[elems[2].layer[j].material[1]].material_id

----------------------------------------------------------------------------
(* Numbers of the estimator.  A Python float is the rational it denotes, a     *)
(* pair <<numerator, denominator>> in lowest terms with a positive             *)
(* denominator; rounding is not modelled.                                      *)

Abs(n) == IF n < 0 THEN 0 - n ELSE n

RECURSIVE Gcd(_, _)
Gcd(a, b) == IF b = 0 THEN a ELSE Gcd(b, a % b)

Frac(n, d) ==
    LET g == Gcd(Abs(n), Abs(d))
        sgn == IF d < 0 THEN 0 - 1 ELSE 1
    IN <<(sgn * n) \div g, (sgn * d) \div g>>

R(n) == <<n, 1>>

\* common factors are divided out before multiplying, to keep the products
\* small
RAdd(a, b) ==
    LET g == Gcd(a[2], b[2])
    IN Frac(a[1] * (b[2] \div g) + b[1] * (a[2] \div g), (a[2] \div g) * b[2])
RSub(a, b) ==
    LET g == Gcd(a[2], b[2])
    IN Frac(a[1] * (b[2] \div g) - b[1] * (a[2] \div g), (a[2] \div g) * b[2])
RMul(a, b) ==
    LET g1 == Gcd(Abs(a[1]), b[2])
        g2 == Gcd(Abs(b[1]), a[2])
    IN Frac((a[1] \div g1) * (b[1] \div g2), (a[2] \div g2) * (b[2] \div g1))
\* a / b, for b # 0
RDiv(a, b) == RMul(a, Frac(b[2], b[1]))

\* a dict: its items in insertion order, a sequence of [key, value]
EmptyDict == <<>>
DictKeys(d) == {d[i].key : i \in 1..Len(d)}
DictGet(d, k) == d[CHOOSE i \in 1..Len(d) : d[i].key = k].value
\* d[k] = v: a key already there keeps its place, a new key goes to the end
DictSet(d, k, v) ==
    IF k \in DictKeys(d)
    THEN [i \in 1..Len(d) |-> IF d[i].key = k THEN [key |-> k, value |-> v] ELSE d[i]]
    ELSE Append(d, [key |-> k, value |-> v])

----------------------------------------------------------------------------
(* SingleFamilyDwelling.__init__ *)

\* the setters of residential_layout, neighbour_buildings, attic, cellar and
\* dormer: None becomes 0, any other value is stored as it is
CategoricalSetter(value) == IF value = None THEN 0 ELSE value[1]

NameEntry(name, tilt, orientation) ==
    [name |-> name, tilt |-> tilt, orientation |-> orientation]

\* the default name tables: name -> [tilt, orientation], in insertion order
OuterWallNames == <<NameEntry("Exterior Facade North", 90, 0),
                    NameEntry("Exterior Facade East", 90, 90),
                    NameEntry("Exterior Facade South", 90, 180),
                    NameEntry("Exterior Facade West", 90, 270)>>
RoofNames == <<NameEntry("Rooftop", 0, 0 - 1)>>
GroundFloorNames == <<NameEntry("Ground Floor", 0, 0 - 2)>>
WindowNames == <<NameEntry("Window Facade North", 90, 0),
                 NameEntry("Window Facade East", 90, 90),
                 NameEntry("Window Facade South", 90, 180),
                 NameEntry("Window Facade West", 90, 270)>>
InnerWallNames == <<NameEntry("InnerWall", 90, 0)>>
CeilingNames == <<NameEntry("Ceiling", 0, 0 - 1)>>
FloorNames == <<NameEntry("Floor", 0, 0 - 2)>>

\* zone_area_factors: name -> [area factor, usage type]
ZoneAreaFactors == <<[name |-> "SingleDwelling", factor |-> R(1), usage |-> "Living"]>>

\* neighbour_buildings -> [_est_factor_neighbour, _est_extra_floor_area];
\* for a value the chain of conditions does not name neither attribute is
\* set (the two assignments before the chain set est_factor_neighbour and
\* est_extra_floor_area, without the underscore)
EstNeighbour(neighbour_buildings) ==
    IF neighbour_buildings = 0 THEN <<R(0), R(50)>>
    ELSE IF neighbour_buildings = 1 THEN <<R(1), R(30)>>
    ELSE IF neighbour_buildings = 2 THEN <<R(2), R(10)>>
    ELSE <<None, None>>

\* residential_layout -> _est_facade_to_floor_area
EstFacadeToFloorArea(residential_layout) ==
    IF residential_layout = 0 THEN Frac(66, 100)
    ELSE IF residential_layout = 1 THEN Frac(8, 10)
    ELSE R(0)

\* attic -> [_est_factor_heated_attic, _est_area_per_floor, _est_area_per_roof]
EstAttic(attic) ==
    IF attic = 0 THEN <<R(0), Frac(133, 100), R(0)>>
    ELSE IF attic = 1 THEN <<R(0), R(0), Frac(133, 100)>>
    ELSE IF attic = 2 THEN <<Frac(5, 10), Frac(75, 100), Frac(67, 100)>>
    ELSE IF attic = 3 THEN <<R(1), Frac(15, 10), R(0)>>
    ELSE <<R(0), R(0), R(0)>>

\* cellar -> _est_factor_heated_cellar
EstFactorHeatedCellar(cellar) ==
    IF cellar = 0 THEN R(0)
    ELSE IF cellar = 1 THEN R(0)
    ELSE IF cellar = 2 THEN Frac(5, 10)
    ELSE IF cellar = 3 THEN R(1)
    ELSE R(0)

\* mutant: the two dormer factors exchanged
EstFactorDormer_Swapped(dormer) ==
    IF dormer = 0 THEN Frac(13, 10)
    ELSE IF dormer = 1 THEN R(1)
    ELSE R(0)

\* dormer -> _est_factor_dormer
EstFactorDormer(dormer) ==
    IF dormer = 0 THEN R(1)
    ELSE IF dormer = 1 THEN Frac(13, 10)
    ELSE R(0)

\* datahandling.check_construction_data_setter_iwu(value), for a value of the
\* IWU or KfW family: the value is returned
CheckConstructionDataSetterIwu(value) == value

\* the building after SingleFamilyDwelling(parent, ...) with the arguments p
SingleFamilyDwelling(p) ==
    LET residential_layout == CategoricalSetter(p.residential_layout)
        neighbour_buildings == CategoricalSetter(p.neighbour_buildings)
        attic == CategoricalSetter(p.attic)
        cellar == CategoricalSetter(p.cellar)
        dormer == CategoricalSetter(p.dormer)
    IN [constructed |-> TRUE,
        year_of_construction |-> p.year_of_construction,
        net_leased_area |-> R(p.net_leased_area),
        thermal_zones |-> <<>>,
        outer_area |-> EmptyDict,
        window_area |-> EmptyDict,
        residential_layout |-> residential_layout,
        neighbour_buildings |-> neighbour_buildings,
        attic |-> attic,
        cellar |-> cellar,
        dormer |-> dormer,
        construction_data |-> CheckConstructionDataSetterIwu(p.construction_data),
        number_of_floors |-> p.number_of_floors,
        zone_area_factors |-> ZoneAreaFactors,
        outer_wall_names |-> OuterWallNames,
        roof_names |-> RoofNames,
        ground_floor_names |-> GroundFloorNames,
        window_names |-> WindowNames,
        inner_wall_names |-> InnerWallNames,
        ceiling_names |-> CeilingNames,
        floor_names |-> FloorNames,
        est_living_area_factor |-> Frac(75, 100),
        est_bottom_building_closure |-> Frac(133, 100),
        est_upper_building_closure |-> R(1),
        est_factor_win_area |-> Frac(2, 10),
        est_factor_cellar_area |-> Frac(5, 10),
        nr_of_orientation |-> Len(OuterWallNames),
        living_area_per_floor |-> R(0),
        number_of_heated_floors |-> R(0),
        est_roof_area |-> R(0),
        top_floor_area |-> None,
        est_ground_floor_area |-> R(0),
        est_facade_area |-> None,
        est_win_area |-> R(0),
        est_outer_wall_area |-> R(0),
        est_cellar_wall_area |-> R(0),
        est_factor_neighbour |-> EstNeighbour(neighbour_buildings)[1],
        est_extra_floor_area |-> EstNeighbour(neighbour_buildings)[2],
        est_facade_to_floor_area |-> EstFacadeToFloorArea(residential_layout),
        est_factor_heated_attic |-> EstAttic(attic)[1],
        est_area_per_floor |-> EstAttic(attic)[2],
        est_area_per_roof |-> EstAttic(attic)[3],
        est_factor_heated_cellar |-> EstFactorHeatedCellar(cellar),
        est_factor_dormer |-> EstFactorDormer(dormer)]

----------------------------------------------------------------------------
(* generate_archetype.  A run carries [b, mats, nl, err]: the building, the *)
(* materials and the number of layers constructed so far, and the exception  *)
(* raised ("ok": none).                                                      *)

\* ThermalZone(self), with its name and area set
NewThermalZone(name, area) ==
    [name |-> name, area |-> area, elements |-> <<>>, derived |-> FALSE]

\* element.load_type_element(year, construction, data_class) of a new element:
\* the resolver with no category override, layers in record order
ElementLoadTypeElement(el, year, construction, bind, ms, nl) ==
    LoadTypeElement(el, year, construction, bind, None, FALSE, ms, nl)

\* mutant: the heated attic counts in full
NumberOfHeatedFloors_NoLivingAreaFactor(b) ==
    RAdd(RAdd(b.est_factor_heated_cellar, R(b.number_of_floors)),
         b.est_factor_heated_attic)

\* _number_of_heated_floors
NumberOfHeatedFloors(b) ==
    RAdd(RAdd(b.est_factor_heated_cellar, R(b.number_of_floors)),
         RMul(b.est_living_area_factor, b.est_factor_heated_attic))

\* mutant: a zero divisor yields the area 0 instead of an exception
LivingAreaPerFloor_Guarded(type_bldg_area, heated) ==
    IF heated = R(0) THEN [value |-> R(0), err |-> "ok"]
    ELSE [value |-> RDiv(type_bldg_area, heated), err |-> "ok"]

\* type_bldg_area / self._number_of_heated_floors
LivingAreaPerFloor(type_bldg_area, heated) ==
    IF heated = R(0) THEN [value |-> None, err |-> "ZeroDivisionError"]
    ELSE [value |-> RDiv(type_bldg_area, heated), err |-> "ok"]

\* mutant: the product is kept when it is zero
RoofAreaWithFallback_NoFallback(roof, top) == roof

\* if self._est_roof_area == 0: self._est_roof_area = self._top_floor_area
RoofAreaWithFallback(roof, top) == IF roof = R(0) THEN top ELSE roof

\* mutant: a negative outer wall area is replaced by zero
OuterWallArea_Clamped(heated, facade, cellar_wall, win) ==
    LET a == RSub(RSub(RMul(heated, facade), cellar_wall), win)
    IN IF a[1] < 0 THEN R(0) ELSE a

\* mutant: the facade of one floor only
OuterWallArea_OneFloor(heated, facade, cellar_wall, win) ==
    RSub(RSub(facade, cellar_wall), win)

\* _est_outer_wall_area
OuterWallArea(heated, facade, cellar_wall, win) ==
    RSub(RSub(RMul(heated, facade), cellar_wall), win)

\* mutant: the zones of an earlier generation are kept
ResetForGeneration_KeepsZones(b) ==
    [b EXCEPT !.net_leased_area = R(0)]

\* self.thermal_zones = None, which empties the list of zones, and
\* self.net_leased_area = 0.0
ResetForGeneration(b) ==
    [b EXCEPT !.thermal_zones = <<>>, !.net_leased_area = R(0)]

\* the estimation stages: the assignments up to the division and, when it
\* does not raise, those after it; reading _est_extra_floor_area raises when
\* the constructor has not set it
EstimateAreas(b) ==
    LET type_bldg_area == b.net_leased_area
        heated == NumberOfHeatedFloors(b)
        b1 == [ResetForGeneration(b) EXCEPT !.number_of_heated_floors = heated]
        d == LivingAreaPerFloor(type_bldg_area, heated)
    IN IF d.err # "ok" THEN [b |-> b1, err |-> d.err]
       ELSE LET living == d.value
                ground == RMul(b.est_bottom_building_closure, living)
                roof == RMul(RMul(RMul(b.est_upper_building_closure, b.est_factor_dormer),
                                  b.est_area_per_floor), living)
                top == RMul(b.est_area_per_roof, living)
                b2 == [b1 EXCEPT !.living_area_per_floor = living,
                                 !.est_ground_floor_area = ground,
                                 !.est_roof_area = RoofAreaWithFallback(roof, top),
                                 !.top_floor_area = top]
            IN IF b.est_extra_floor_area = None
               THEN [b |-> b2, err |-> "AttributeError"]
               ELSE LET facade == RMul(b.est_facade_to_floor_area,
                                       RAdd(living, b.est_extra_floor_area))
                        win == RMul(b.est_factor_win_area, type_bldg_area)
                        cellar_wall == RMul(RMul(b.est_factor_cellar_area,
                                                 b.est_factor_heated_cellar), facade)
                        outer_wall == OuterWallArea(heated, facade, cellar_wall, win)
                    IN [b |-> [b2 EXCEPT !.est_facade_area = facade,
                                         !.est_win_area = win,
                                         !.est_cellar_wall_area = cellar_wall,
                                         !.est_outer_wall_area = outer_wall],
                        err |-> "ok"]

\* zone.area = value on a new zone of the building: the zone takes the area,
\* and the net leased area of the building grows by it
ZoneAreaSetter(b, name, area) ==
    [b EXCEPT !.thermal_zones = Append(@, NewThermalZone(name, area)),
              !.net_leased_area = RAdd(@, area)]

\* mutant: the zone areas are taken from the building's net leased area as it
\* is when the loop runs, after the reset
RECURSIVE CreateZones_AfterReset(_, _, _)
CreateZones_AfterReset(b, type_bldg_area, i) ==
    IF i > Len(b.zone_area_factors) THEN b
    ELSE LET area == RMul(b.net_leased_area, b.zone_area_factors[i].factor)
         IN CreateZones_AfterReset(
                ZoneAreaSetter(b, b.zone_area_factors[i].name, area),
                type_bldg_area, i + 1)

\* the zone loop: a zone for every entry of zone_area_factors, with the area
\* type_bldg_area * value[0]
RECURSIVE CreateZones(_, _, _)
CreateZones(b, type_bldg_area, i) ==
    IF i > Len(b.zone_area_factors) THEN b
    ELSE LET area == RMul(type_bldg_area, b.zone_area_factors[i].factor)
         IN CreateZones(ZoneAreaSetter(b, b.zone_area_factors[i].name, area),
                        type_bldg_area, i + 1)

\* the steps of the element loops, in program order: an entry written to
\* outer_area or window_area, or an element constructed in a zone, resolved and
\* then named
AreaStep(dict, key, value) ==
    [kind |-> "area", dict |-> dict, key |-> key, value |-> value]
ElementStep(zone, type, construction, entry) ==
    [kind |-> "element", zone |-> zone, type |-> type, construction |-> construction,
     name |-> entry.name, tilt |-> entry.tilt, orientation |-> entry.orientation]

RECURSIVE ZoneSteps(_, _, _, _, _)
ZoneSteps(b, type, construction, entry, z) ==
    IF z > Len(b.thermal_zones) THEN <<>>
    ELSE <<ElementStep(z, type, construction, entry)>>
         \o ZoneSteps(b, type, construction, entry, z + 1)

IsCardinal(orientation) ==
    orientation = 0 \/ orientation = 180 \/ orientation = 90 \/ orientation = 270

\* mutant: the wall and window loops record north and south only
AreaSteps_NorthSouthOnly(area, entry) ==
    IF area = None THEN <<>>
    ELSE IF area[1].cardinal_only /\ entry.orientation \notin {0, 180} THEN <<>>
    ELSE <<AreaStep(area[1].dict, entry.orientation, area[1].value)>>

\* the entry a loop writes to outer_area or window_area for a name: none for
\* the loops that write none, and none for an orientation the conditions of
\* the wall and window loops do not name
AreaSteps(area, entry) ==
    IF area = None THEN <<>>
    ELSE IF area[1].cardinal_only /\ ~IsCardinal(entry.orientation) THEN <<>>
    ELSE <<AreaStep(area[1].dict, entry.orientation, area[1].value)>>

\* one of the loops over a name table
RECURSIVE NameSteps(_, _, _, _, _, _)
NameSteps(b, names, type, construction, area, i) ==
    IF i > Len(names) THEN <<>>
    ELSE AreaSteps(area, names[i])
         \o ZoneSteps(b, type, construction, names[i], 1)
         \o NameSteps(b, names, type, construction, area, i + 1)

\* mutant: ceilings and floors from the first floor on
HasIntermediateFloors_FromOne(b) == b.number_of_floors >= 1

\* if self.number_of_floors > 1
HasIntermediateFloors(b) == b.number_of_floors > 1

WindowConstruction(construction_data) ==
    IF construction_data.is_kfw THEN "Waermeschutzverglasung, dreifach"
    ELSE "Kunststofffenster, Isolierverglasung"

\* mutant: the divisor is the number of outer wall names at generation time
OrientationDivisor_NamesNow(b) == Len(b.outer_wall_names)

\* self.nr_of_orientation, the divisor of the wall and window areas
OrientationDivisor(b) == b.nr_of_orientation

ElementSteps(b) ==
    LET construction == b.construction_data.value
        OuterArea == Some([dict |-> "outer_area", cardinal_only |-> TRUE,
                           value |-> RDiv(b.est_outer_wall_area, R(OrientationDivisor(b)))])
        WindowArea == Some([dict |-> "window_area", cardinal_only |-> TRUE,
                            value |-> RDiv(b.est_win_area, R(OrientationDivisor(b)))])
        RoofArea == Some([dict |-> "outer_area", cardinal_only |-> FALSE,
                          value |-> b.est_roof_area])
        GroundArea == Some([dict |-> "outer_area", cardinal_only |-> FALSE,
                            value |-> b.est_ground_floor_area])
    IN NameSteps(b, b.outer_wall_names, OuterWall, construction, OuterArea, 1)
       \o NameSteps(b, b.window_names, Window,
                    WindowConstruction(b.construction_data), WindowArea, 1)
       \o NameSteps(b, b.roof_names, Rooftop, construction, RoofArea, 1)
       \o NameSteps(b, b.ground_floor_names, GroundFloor, construction, GroundArea, 1)
       \o NameSteps(b, b.inner_wall_names, InnerWall, construction, None, 1)
       \o (IF HasIntermediateFloors(b)
           THEN NameSteps(b, b.ceiling_names, Ceiling, construction, None, 1)
                \o NameSteps(b, b.floor_names, Floor, construction, None, 1)
           ELSE <<>>)

\* the calls generate_archetype makes on an element or a zone, as they are
\* written to the log of a run
Event(ev, zone, index) == [ev |-> ev, zone |-> zone, index |-> index]

\* mutant: name, tilt and orientation are written before the resolver runs
RunStep_NamesFirst(st, step, bind) ==
    IF step.kind = "area"
    THEN [st EXCEPT !.b[step.dict] = DictSet(@, step.key, step.value)]
    ELSE LET r == ElementLoadTypeElement(
                      [NewBuildingElement(step.type) EXCEPT
                           !.name = Some(step.name), !.tilt = Some(step.tilt),
                           !.orientation = Some(step.orientation)],
                      st.b.year_of_construction, step.construction,
                      bind, st.mats, st.nl)
             index == Len(st.b.thermal_zones[step.zone].elements) + 1
         IN [b |-> [st.b EXCEPT !.thermal_zones[step.zone].elements = Append(@, r.el)],
             mats |-> r.mats, nl |-> r.nl, err |-> r.err,
             log |-> st.log \o <<Event("name", step.zone, index),
                                 Event("resolve", step.zone, index)>>]

\* the rest of the body of an element loop, r being what the resolver
\* returned: the element is named when the resolver raised nothing
StoreElement(st, step, r) ==
    LET el == IF r.err = "ok"
              THEN [r.el EXCEPT !.name = Some(step.name),
                                !.tilt = Some(step.tilt),
                                !.orientation = Some(step.orientation)]
              ELSE r.el
        index == Len(st.b.thermal_zones[step.zone].elements) + 1
    IN [b |-> [st.b EXCEPT !.thermal_zones[step.zone].elements = Append(@, el)],
        mats |-> r.mats, nl |-> r.nl, err |-> r.err,
        log |-> st.log \o <<Event("resolve", step.zone, index)>>
                \o (IF r.err = "ok"
                    THEN <<Event("name", step.zone, index)>>
                    ELSE <<>>)]

\* one step of the element loops
RunStep(st, step, bind) ==
    IF step.kind = "area"
    THEN [st EXCEPT !.b[step.dict] = DictSet(@, step.key, step.value)]
    ELSE StoreElement(st, step,
                      ElementLoadTypeElement(NewBuildingElement(step.type),
                                             st.b.year_of_construction,
                                             step.construction, bind, st.mats, st.nl))

RECURSIVE RunSteps(_, _, _, _)
RunSteps(st, steps, bind, i) ==
    IF i > Len(steps) \/ st.err # "ok" THEN st
    ELSE RunSteps(RunStep(st, steps[i], bind), steps, bind, i + 1)

\* set_outer_wall_area and set_window_area for every entry of the two dicts:
\* the area of an orientation goes to the outer walls, rooftops and ground
\* floors, or to the windows, of that orientation
CommitArea(b, el) ==
    IF /\ el.type \in {OuterWall, Rooftop, GroundFloor}
       /\ el.orientation # None
       /\ el.orientation[1] \in DictKeys(b.outer_area)
    THEN [el EXCEPT !.area = Some(DictGet(b.outer_area, el.orientation[1]))]
    ELSE IF /\ el.type = Window
            /\ el.orientation # None
            /\ el.orientation[1] \in DictKeys(b.window_area)
    THEN [el EXCEPT !.area = Some(DictGet(b.window_area, el.orientation[1]))]
    ELSE el

\* the two closing loops: the areas are committed, then every zone derives its
\* inner wall area and its volume
CommitAreas(b) ==
    [b EXCEPT !.thermal_zones =
        [z \in 1..Len(@) |->
            [@[z] EXCEPT !.elements = [k \in 1..Len(@) |-> CommitArea(b, @[k])],
                         !.derived = TRUE]]]

\* the elements of zone z, from the k-th on, that are of category t and face
\* the orientation key: each has its area set
RECURSIVE FacingEvents(_, _, _, _, _)
FacingEvents(b, z, t, key, k) ==
    IF k > Len(b.thermal_zones[z].elements) THEN <<>>
    ELSE (IF /\ b.thermal_zones[z].elements[k].type = t
             /\ b.thermal_zones[z].elements[k].orientation = Some(key)
          THEN <<Event("commit", z, k)>>
          ELSE <<>>)
         \o FacingEvents(b, z, t, key, k + 1)

\* set_outer_wall_area(value, key) or set_window_area(value, key): zone after
\* zone from the z-th on, and in a zone one category after the other, from the
\* i-th of types on
RECURSIVE SetAreaEvents(_, _, _, _, _)
SetAreaEvents(b, types, key, z, i) ==
    IF z > Len(b.thermal_zones) THEN <<>>
    ELSE IF i > Len(types) THEN SetAreaEvents(b, types, key, z + 1, 1)
    ELSE FacingEvents(b, z, types[i], key, 1)
         \o SetAreaEvents(b, types, key, z, i + 1)

\* for key, value in dict.items(): the setter is called for the keys in
\* insertion order, from the n-th on
RECURSIVE ItemsEvents(_, _, _, _)
ItemsEvents(b, dict, types, n) ==
    IF n > Len(dict) THEN <<>>
    ELSE SetAreaEvents(b, types, dict[n].key, 1, 1)
         \o ItemsEvents(b, dict, types, n + 1)

\* the calls of the commit stage: the loop over outer_area, then the loop over
\* window_area
CommitEvents(b) ==
    ItemsEvents(b, b.outer_area, <<OuterWall, Rooftop, GroundFloor>>, 1)
    \o ItemsEvents(b, b.window_area, <<Window>>, 1)

DeriveEvents(b) == [z \in 1..Len(b.thermal_zones) |-> Event("derive", z, 0)]

\* the closing stages, st being the run after the element loops
CommitStage(st) ==
    IF st.err # "ok" THEN st
    ELSE [st EXCEPT !.b = CommitAreas(st.b),
                    !.log = @ \o CommitEvents(st.b) \o DeriveEvents(st.b)]

\* the element loops and the closing stages, b1 being the dwelling with its
\* zones created
ElementStage(b1, bind, ms, nl) ==
    CommitStage(RunSteps([b |-> b1, mats |-> ms, nl |-> nl, err |-> "ok",
                          log |-> <<>>],
                         ElementSteps(b1), bind, 1))

\* the stages after the estimation, e being what the estimation returned
ZoneStage(b, e, bind, ms, nl) ==
    IF e.err # "ok"
    THEN [b |-> e.b, mats |-> ms, nl |-> nl, err |-> e.err, log |-> <<>>]
    ELSE ElementStage(CreateZones(e.b, b.net_leased_area, 1), bind, ms, nl)

GenerateArchetype(b, bind, ms, nl) ==
    ZoneStage(b, EstimateAreas(b), bind, ms, nl)

----------------------------------------------------------------------------
(* The estimator as a state machine: the caller constructs the dwelling and  *)
(* calls generate_archetype on it, once or again.                            *)

\* an argument left out (None) or given
Optional(S) == {None} \cup {Some(v) : v \in S}

Areas == {90, 120}

\* ConstructionData.iwu_heavy and a KfW standard: the value and is_kfw()
IwuHeavy == [value |-> "iwu_heavy", is_kfw |-> FALSE]
Kfw == [value |-> "kfw_55", is_kfw |-> TRUE]

\* every geometry, each categorical value also left out and out of its range,
\* in year 1 with heavy construction
GeometryArgs ==
    [year_of_construction : {1},
     construction_data : {IwuHeavy},
     number_of_floors : 0..MaxFloors,
     net_leased_area : {120},
     residential_layout : Optional(0..2),
     neighbour_buildings : Optional(0..3),
     attic : Optional(0..4),
     cellar : Optional(0..4),
     dormer : Optional(0..2)]

\* every year and construction, for the default geometry
ConstructionArgs ==
    [year_of_construction : Years,
     construction_data : {IwuHeavy, Kfw},
     number_of_floors : 1..MaxFloors,
     net_leased_area : Areas,
     residential_layout : {None},
     neighbour_buildings : {None},
     attic : {None},
     cellar : {None},
     dormer : {None}]

\* the database the geometries are explored against: an outer wall and a
\* window record
ArchDatabase == <<VersionEntry, Pool(1), Pool(3)>>

DwellingArgs ==
    IF db = ArchDatabase THEN GeometryArgs \cup ConstructionArgs ELSE ConstructionArgs

\* the five categorical values the constructor stores through the setters and
\* then derives the estimation factors from
Configuration(p) ==
    [residential_layout |-> CategoricalSetter(p.residential_layout),
     neighbour_buildings |-> CategoricalSetter(p.neighbour_buildings),
     attic |-> CategoricalSetter(p.attic),
     cellar |-> CategoricalSetter(p.cellar),
     dormer |-> CategoricalSetter(p.dormer),
     assigned |-> <<>>]

\* bldg = SingleFamilyDwelling(prj, ...)
ConstructDwelling(p) ==
    /\ ~bldg.constructed
    /\ bldg' = SingleFamilyDwelling(p)
    /\ built' = Configuration(p)
    /\ UNCHANGED <<db, elems, mats, nLayers, ncalls, last, gen, procs, prj>>

\* assignments to an attribute of a dwelling after its construction
AssignmentNumbers == {1}

\* the assignment of an attribute, made after gen.count generations
Assigned(attribute) ==
    [built EXCEPT !.assigned = Append(@, [attribute |-> attribute, at |-> gen.count])]

\* the caller may assign: the dwelling exists, and the number of assignments
\* stays within AssignmentNumbers
MayAssign ==
    /\ bldg.constructed
    /\ Len(built.assigned) + 1 \in AssignmentNumbers

\* bldg.residential_layout = value: the value is stored, None as 0; the
\* estimation factors stay as the constructor derived them
SetResidentialLayout(value) ==
    /\ MayAssign
    /\ bldg' = [bldg EXCEPT !.residential_layout = CategoricalSetter(value)]
    /\ built' = Assigned("residential_layout")
    /\ UNCHANGED <<db, elems, mats, nLayers, ncalls, last, gen, procs, prj>>

\* bldg.neighbour_buildings = value
SetNeighbourBuildings(value) ==
    /\ MayAssign
    /\ bldg' = [bldg EXCEPT !.neighbour_buildings = CategoricalSetter(value)]
    /\ built' = Assigned("neighbour_buildings")
    /\ UNCHANGED <<db, elems, mats, nLayers, ncalls, last, gen, procs, prj>>

\* bldg.attic = value
SetAttic(value) ==
    /\ MayAssign
    /\ bldg' = [bldg EXCEPT !.attic = CategoricalSetter(value)]
    /\ built' = Assigned("attic")
    /\ UNCHANGED <<db, elems, mats, nLayers, ncalls, last, gen, procs, prj>>

\* bldg.cellar = value
SetCellar(value) ==
    /\ MayAssign
    /\ bldg' = [bldg EXCEPT !.cellar = CategoricalSetter(value)]
    /\ built' = Assigned("cellar")
    /\ UNCHANGED <<db, elems, mats, nLayers, ncalls, last, gen, procs, prj>>

\* bldg.dormer = value
SetDormer(value) ==
    /\ MayAssign
    /\ bldg' = [bldg EXCEPT !.dormer = CategoricalSetter(value)]
    /\ built' = Assigned("dormer")
    /\ UNCHANGED <<db, elems, mats, nLayers, ncalls, last, gen, procs, prj>>

\* bldg.construction_data = value
SetConstructionData(value) ==
    /\ MayAssign
    /\ bldg' = [bldg EXCEPT !.construction_data = CheckConstructionDataSetterIwu(value)]
    /\ built' = Assigned("construction_data")
    /\ UNCHANGED <<db, elems, mats, nLayers, ncalls, last, gen, procs, prj>>

\* the dwellings whose attributes the caller goes on to assign: those of at
\* most one floor, constructed detached, compact and without dormer, of any
\* attic and cellar
Reassignable ==
    /\ db = ArchDatabase
    /\ bldg.constructed
    /\ bldg.number_of_floors <= 1
    /\ built.residential_layout = 0
    /\ built.neighbour_buildings = 0
    /\ built.dormer = 0

\* the values assigned: in the table and outside it, and None
AssignedValues(S) == IF Reassignable THEN S ELSE {}

Assignments ==
    \/ \E value \in AssignedValues({Some(1), Some(2)}) : SetResidentialLayout(value)
    \/ \E value \in AssignedValues({Some(1), Some(3)}) : SetNeighbourBuildings(value)
    \/ \E value \in AssignedValues({None, Some(2), Some(3)}) : SetAttic(value)
    \/ \E value \in AssignedValues({Some(0), Some(3)}) : SetCellar(value)
    \/ \E value \in AssignedValues({Some(1)}) : SetDormer(value)
    \/ \E value \in AssignedValues({Kfw}) : SetConstructionData(value)

\* bldg.generate_archetype()
CallGenerateArchetype ==
    /\ bldg.constructed
    /\ gen.count < MaxGenerations
    /\ \E st \in {GenerateArchetype(bldg, db, mats, nLayers)} :
          /\ bldg' = st.b
          /\ mats' = st.mats
          /\ nLayers' = st.nl
          /\ gen' = [count |-> gen.count + 1, pre |-> bldg, preMats |-> Len(mats),
                     preLayers |-> nLayers, err |-> st.err, log |-> st.log]
    /\ UNCHANGED <<db, elems, ncalls, last, procs, prj, built>>

ANext ==
    \/ \E p \in DwellingArgs : ConstructDwelling(p)
    \/ Assignments
    \/ CallGenerateArchetype

SpecArch == RInit /\ [][ANext]_vars

----------------------------------------------------------------------------
Generated == gen.count > 0

\* the thousandths a cellar or attic of configuration c adds to the heated
\* floors, a heated one counting whole
Thousandths(c, whole) ==
    IF c = 2 THEN whole \div 2 ELSE IF c = 3 THEN whole ELSE 0

\* C9: generate_archetype computes heated_floors = heated_cellar_factor +
\* number_of_floors + 0.75 * heated_attic_factor, the cellar factor being 0 for
\* cellar 0 and 1, 0.5 for 2, 1.0 for 3, the attic factor 0 for attic 0 and 1,
\* 0.5 for 2, 1.0 for 3; both factors are always 0, 0.5 or 1.0.  Cellar and
\* attic are the values the dwelling was constructed with: the constructor
\* looks the factors up, and a value assigned later leaves them as they are.
C9_HeatedFloors ==
    /\ bldg.constructed =>
          /\ bldg.est_factor_heated_cellar \in {R(0), Frac(1, 2), R(1)}
          /\ bldg.est_factor_heated_attic \in {R(0), Frac(1, 2), R(1)}
    /\ Generated =>
          bldg.number_of_heated_floors
             = RAdd(RAdd(bldg.est_factor_heated_cellar, R(bldg.number_of_floors)),
                    RMul(Frac(75, 100), bldg.est_factor_heated_attic))
    /\ (Generated /\ built.cellar \in 0..3 /\ built.attic \in 0..3) =>
          bldg.number_of_heated_floors
             = Frac(1000 * bldg.number_of_floors + Thousandths(built.cellar, 1000)
                       + Thousandths(built.attic, 750),
                    1000)

\* one floor, a partly heated cellar and a partly heated attic: 1.875 floors
C9_Witness ==
    /\ Generated /\ gen.err = "ok"
    /\ bldg.number_of_floors = 1 /\ built.cellar = 2 /\ built.attic = 2
    /\ bldg.cellar = 2 /\ bldg.attic = 2
    /\ bldg.number_of_heated_floors = Frac(1875, 1000)

----------------------------------------------------------------------------
\* C10: generate_archetype fails with a division by zero exactly when
\* heated_floors is zero, which for the cellar and attic configurations 0..3 is
\* number_of_floors = 0 with cellar in {0, 1} and attic in {0, 1}; with
\* number_of_floors >= 1 the division never fails; and when it fails, no zone
\* and no building element has been created.  Cellar and attic are the values
\* the dwelling was constructed with.
C10_DivisionByZero ==
    Generated =>
        /\ gen.err = "ZeroDivisionError" <=> bldg.number_of_heated_floors = R(0)
        /\ (built.cellar \in 0..3 /\ built.attic \in 0..3) =>
              (gen.err = "ZeroDivisionError"
                  <=> /\ bldg.number_of_floors = 0
                      /\ built.cellar \in {0, 1}
                      /\ built.attic \in {0, 1})
        /\ bldg.number_of_floors >= 1 => gen.err # "ZeroDivisionError"
        /\ gen.err = "ZeroDivisionError" =>
              /\ bldg.thermal_zones = <<>>
              /\ Len(mats) = gen.preMats
              /\ nLayers = gen.preLayers

\* no floors, an unheated cellar and a flat roof: the division fails
C10_Witness ==
    /\ Generated /\ gen.err = "ZeroDivisionError"
    /\ bldg.number_of_floors = 0 /\ built.cellar = 1 /\ built.attic = 1
    /\ bldg.cellar = 1 /\ bldg.attic = 1
    /\ bldg.thermal_zones = <<>>

----------------------------------------------------------------------------
GenerationFailed == Generated /\ gen.err # "ok"

\* C11: a generate_archetype call that aborts leaves the building's
\* net_leased_area and its list of thermal zones as they were before the call.
C11_FailedGenerationKeepsState ==
    GenerationFailed =>
        /\ bldg.net_leased_area = gen.pre.net_leased_area
        /\ bldg.thermal_zones = gen.pre.thermal_zones

----------------------------------------------------------------------------
\* the last call applied a record and the material lookup of one of its layers
\* raised
MaterialLookupFailed ==
    /\ last.op # "none"
    /\ last.err = "KeyError"
    /\ Len(mats) > last.preMats
    /\ mats[Len(mats)].material_id = None

\* C12: when the material lookup fails for a layer of an applied record, in
\* load_type_element or load_type_element_by_key, the element's coefficients
\* and layer list are the same as before the call.
C12_FailedLoadKeepsElement ==
    MaterialLookupFailed => Target = last.pre

----------------------------------------------------------------------------
\* the last generate_archetype call got past the division
EstimationRan == Generated /\ gen.err # "ZeroDivisionError"

\* the dwelling was constructed with the five categorical values 0
AllCategoricalsZero ==
    /\ built.residential_layout = 0
    /\ built.neighbour_buildings = 0
    /\ built.attic = 0
    /\ built.cellar = 0
    /\ built.dormer = 0

WorkedExampleInput ==
    /\ Generated /\ gen.err = "ok"
    /\ bldg.number_of_floors = 1
    /\ gen.pre.net_leased_area = R(120)
    /\ AllCategoricalsZero

\* C13: for a dwelling constructed with number_of_floors = 1, net_leased_area =
\* 120 and layout, neighbours, attic, cellar and dormer all 0,
\* generate_archetype yields heated_floors = 1,
\* living_area_per_floor = 120, ground_floor_area = 159.6, roof_area = 159.6
\* and window_area = 24 (in hundredths: 15960, 15960, 2400).
C13_WorkedExample ==
    WorkedExampleInput =>
        /\ bldg.number_of_heated_floors = R(1)
        /\ bldg.living_area_per_floor = R(120)
        /\ bldg.est_ground_floor_area = Frac(15960, 100)
        /\ bldg.est_roof_area = Frac(15960, 100)
        /\ bldg.est_win_area = Frac(2400, 100)

C13_Witness ==
    /\ WorkedExampleInput
    /\ bldg.est_roof_area = Frac(15960, 100)
    /\ bldg.thermal_zones # <<>>

----------------------------------------------------------------------------
Positive(x) == x[1] > 0

\* C14: roof_area = 1.0 * dormer_factor * area_per_floor(attic) *
\* living_area_per_floor, replaced by area_per_roof(attic) *
\* living_area_per_floor when that product is exactly zero; for attic 0..3,
\* dormer 0..1 and a positive living area per floor the roof area is not zero,
\* and attic 1 yields 1.33 * living_area_per_floor.  Attic and dormer are the
\* values the dwelling was constructed with.
C14_RoofAreaFallback ==
    EstimationRan =>
        LET living == bldg.living_area_per_floor
            product == RMul(RMul(RMul(R(1), bldg.est_factor_dormer),
                                 bldg.est_area_per_floor), living)
        IN /\ bldg.est_roof_area = IF product = R(0)
                                   THEN RMul(bldg.est_area_per_roof, living)
                                   ELSE product
           /\ (built.attic \in 0..3 /\ built.dormer \in 0..1 /\ Positive(living))
                 => bldg.est_roof_area # R(0)
           /\ built.attic = 1 => bldg.est_roof_area = RMul(Frac(133, 100), living)

\* a flat roof (attic 1) under a dormer: the product is zero, the fallback
\* reports 1.33 * living_area_per_floor
C14_Witness ==
    /\ EstimationRan /\ gen.err = "ok"
    /\ built.attic = 1 /\ built.dormer = 1
    /\ Positive(bldg.living_area_per_floor)
    /\ bldg.est_area_per_floor = R(0)
    /\ bldg.est_roof_area = RMul(Frac(133, 100), bldg.living_area_per_floor)

----------------------------------------------------------------------------
\* the last generate_archetype call got past the wall-area stage
WallStageRan == Generated /\ gen.err \notin {"ZeroDivisionError", "AttributeError"}

Orientations == {0, 90, 180, 270}

FacadeRatio(layout) == IF layout = 0 THEN Frac(66, 100) ELSE Frac(80, 100)
ExtraFloorArea(neighbours) ==
    IF neighbours = 0 THEN R(50) ELSE IF neighbours = 1 THEN R(30) ELSE R(10)

\* C15: facade_area = ratio(layout: 0.66 or 0.8) * (living_area_per_floor +
\* extra(neighbours: 50/30/10)), window_area = 0.2 * the input net leased
\* area, cellar_wall_area = 0.5 * heated_cellar_factor * facade_area and
\* outer_wall_area = heated_floors * facade_area - cellar_wall_area -
\* window_area; no range check: the outer wall area, negative or not, goes
\* unchanged into the per-orientation areas.  Layout and neighbours are the
\* values the dwelling was constructed with.
C15_WallAreaStage ==
    WallStageRan =>
        LET facade == bldg.est_facade_area
            outer_wall == RSub(RSub(RMul(bldg.number_of_heated_floors, facade),
                                    bldg.est_cellar_wall_area),
                               bldg.est_win_area)
        IN /\ (built.residential_layout \in {0, 1} /\ built.neighbour_buildings \in {0, 1, 2})
                 => facade = RMul(FacadeRatio(built.residential_layout),
                                  RAdd(bldg.living_area_per_floor,
                                       ExtraFloorArea(built.neighbour_buildings)))
           /\ bldg.est_win_area = RMul(Frac(2, 10), gen.pre.net_leased_area)
           /\ bldg.est_cellar_wall_area
                 = RMul(RMul(Frac(5, 10), bldg.est_factor_heated_cellar), facade)
           /\ bldg.est_outer_wall_area = outer_wall
           /\ gen.err = "ok" =>
                 \A o \in Orientations :
                    /\ o \in DictKeys(bldg.outer_area)
                    /\ RMul(R(4), DictGet(bldg.outer_area, o)) = outer_wall

\* a generation that completes with a negative outer wall area, recorded as
\* negative for north
C15_Witness ==
    /\ Generated /\ gen.err = "ok"
    /\ bldg.est_outer_wall_area[1] < 0
    /\ 0 \in DictKeys(bldg.outer_area)
    /\ DictGet(bldg.outer_area, 0)[1] < 0

----------------------------------------------------------------------------
\* the sum of the values a dict holds for the keys in S
RECURSIVE SumOver(_, _)
SumOver(d, S) ==
    IF S = {} THEN R(0)
    ELSE LET k == CHOOSE x \in S : TRUE IN RAdd(DictGet(d, k), SumOver(d, S \ {k}))

\* C16: after generate_archetype with the default orientation tables the
\* outer-wall area recorded for each of 0, 90, 180, 270 is outer_wall_area / 4,
\* the window area recorded for each is window_area / 4 (the divisor is the
\* orientation count), and the four values sum back to the total.
C16_PerOrientationSplit ==
    (Generated /\ gen.err = "ok") =>
        /\ bldg.nr_of_orientation = 4
        /\ Orientations \subseteq DictKeys(bldg.outer_area)
        /\ DictKeys(bldg.window_area) = Orientations
        /\ \A o \in Orientations :
              /\ DictGet(bldg.outer_area, o) = RDiv(bldg.est_outer_wall_area, R(4))
              /\ DictGet(bldg.window_area, o) = RDiv(bldg.est_win_area, R(4))
        /\ SumOver(bldg.outer_area, Orientations) = bldg.est_outer_wall_area
        /\ SumOver(bldg.window_area, Orientations) = bldg.est_win_area

\* 120 m2, one floor, detached: 88.2 m2 of outer wall, 22.05 m2 a side, and
\* 6 m2 of window a side
C16_Witness ==
    /\ WorkedExampleInput
    /\ bldg.est_outer_wall_area = Frac(882, 10)
    /\ DictGet(bldg.outer_area, 90) = Frac(2205, 100)
    /\ DictGet(bldg.window_area, 270) = R(6)

----------------------------------------------------------------------------
ZoneIndices == 1..Len(bldg.thermal_zones)

\* the elements of category t, named name, in zone z
Named(z, t, name) ==
    {k \in 1..Len(bldg.thermal_zones[z].elements) :
        /\ bldg.thermal_zones[z].elements[k].type = t
        /\ bldg.thermal_zones[z].elements[k].name = Some(name)}

\* the elements of category t in zone z
OfCategory(z, t) ==
    {k \in 1..Len(bldg.thermal_zones[z].elements) :
        bldg.thermal_zones[z].elements[k].type = t}

\* zone z holds exactly one element of category t for every name of the table
OnePerName(z, t, names) ==
    /\ \A n \in 1..Len(names) : Cardinality(Named(z, t, names[n].name)) = 1
    /\ Cardinality(OfCategory(z, t)) = Len(names)

\* C17: after generate_archetype no Ceiling and no Floor element exists when
\* number_of_floors is 1 or less; when number_of_floors > 1 exactly one Ceiling
\* per (ceiling name, zone) and one Floor per (floor name, zone) exists.
C17_CeilingsAndFloors ==
    Generated =>
        /\ bldg.number_of_floors <= 1 =>
              \A z \in ZoneIndices :
                 OfCategory(z, Ceiling) = {} /\ OfCategory(z, Floor) = {}
        /\ (bldg.number_of_floors > 1 /\ gen.err = "ok") =>
              /\ ZoneIndices # {}
              /\ \A z \in ZoneIndices :
                    /\ OnePerName(z, Ceiling, bldg.ceiling_names)
                    /\ OnePerName(z, Floor, bldg.floor_names)

\* two floors: the zone holds the ceiling "Ceiling" and the floor "Floor"
C17_Witness ==
    /\ Generated /\ gen.err = "ok"
    /\ bldg.number_of_floors = 2
    /\ Cardinality(Named(1, Ceiling, "Ceiling")) = 1
    /\ Cardinality(Named(1, Floor, "Floor")) = 1

----------------------------------------------------------------------------
RECURSIVE ZoneAreaSum(_)
ZoneAreaSum(z) ==
    IF z = 0 THEN R(0) ELSE RAdd(ZoneAreaSum(z - 1), bldg.thermal_zones[z].area)

\* C18: generate_archetype snapshots the input net leased area and resets the
\* building's value to 0 (it is 0 when the division then fails); every zone
\* gets the area input * fraction; on successful completion the building's
\* net leased area is the sum of its zone areas, equal to the input for the
\* default single zone with fraction 1, and not 0.
C18_NetLeasedAreaRederived ==
    Generated =>
        /\ gen.err = "ZeroDivisionError" => bldg.net_leased_area = R(0)
        /\ gen.err = "ok" =>
              /\ Len(bldg.thermal_zones) = Len(bldg.zone_area_factors)
              /\ \A z \in ZoneIndices :
                    bldg.thermal_zones[z].area
                       = RMul(gen.pre.net_leased_area, bldg.zone_area_factors[z].factor)
              /\ bldg.net_leased_area = ZoneAreaSum(Len(bldg.thermal_zones))
              /\ bldg.net_leased_area = gen.pre.net_leased_area
              /\ Positive(gen.pre.net_leased_area) => bldg.net_leased_area # R(0)

\* a second generation of a 90 m2 dwelling: again one zone of 90 m2 and a net
\* leased area of 90 m2
C18_Witness ==
    /\ gen.count = 2 /\ gen.err = "ok"
    /\ gen.pre.net_leased_area = R(90)
    /\ Len(bldg.thermal_zones) = 1
    /\ bldg.thermal_zones[1].area = R(90)
    /\ bldg.net_leased_area = R(90)

----------------------------------------------------------------------------
\* the dwelling held, when generate_archetype was last called, a categorical
\* value outside its table
InvalidCategorical ==
    \/ gen.pre.residential_layout \notin {0, 1}
    \/ gen.pre.neighbour_buildings \notin {0, 1, 2}
    \/ gen.pre.attic \notin 0..3
    \/ gen.pre.cellar \notin 0..3
    \/ gen.pre.dormer \notin {0, 1}

\* C19: a categorical value outside its table (layout not 0/1, neighbours not
\* 0..2, attic or cellar not 0..3, dormer not 0/1), given to the constructor
\* or assigned through a setter, makes the estimator fail; generation never
\* completes on coefficients defaulted for it.
C19_InvalidCategoricalFails ==
    (Generated /\ InvalidCategorical) => gen.err # "ok"

----------------------------------------------------------------------------
\* C20: neither load_type_element nor load_type_element_by_key modifies the
\* type-element database: over every step of every sequence of calls,
\* matching, not matching or failing, its keys, records and layer definitions
\* stay as they are.
C20_DatabaseReadOnly == [][db' = db]_vars

\* two calls have been made on a database of two records, the last one failing
C20_Witness ==
    /\ ncalls = 2
    /\ Len(db) = 3
    /\ last.err # "ok"
    /\ last.applied # <<>>

----------------------------------------------------------------------------
(* Two callers inside load_type_element at once, on one database.  Caller p  *)
(* works on element p.  A step of a caller is one pass of the record loop up *)
(* to and including _set_basic_data, or one pass of the layer loop; the      *)
(* steps of the two callers interleave in every order.                       *)

ConcurrentYears == {1, 2}

\* caller p enters load_type_element(elems[p], year, construction, data_class,
\* reverse_layers = reverse_layers): the locals before the record loop
Begin(p, year, construction, reverse_layers) ==
    /\ procs[p].pc = "idle"
    /\ Len(elems) = Cardinality(Procs)
    /\ procs' = [procs EXCEPT ![p] =
                    [pc |-> "scan", year |-> year, construction |-> construction,
                     element_type |-> elems[p].type, reverse_layers |-> reverse_layers,
                     element_binding |-> db, i |-> 1, items |-> <<>>, j |-> 1,
                     err |-> "ok", pre |-> elems[p]]]
    /\ UNCHANGED <<db, elems, mats, nLayers, ncalls, last, bldg, gen, prj, built>>

\* mutant: _set_basic_data writes to one element shared by the callers
ScanStep_SharedElement(p) ==
    /\ procs[p].pc = "scan"
    /\ LET c == procs[p]
       IN IF c.i > Len(db)
          THEN /\ procs' = [procs EXCEPT ![p].pc = "done"]
               /\ UNCHANGED elems
          ELSE IF Matches(db[c.i].key, db[c.i].value, c.year, c.construction,
                          c.element_type)
          THEN LET b == SetBasicData(elems[1], db[c.i].value)
               IN /\ elems' = [elems EXCEPT ![1] = b.el]
                  /\ procs' = [procs EXCEPT ![p] =
                                  IF b.err # "ok"
                                  THEN [c EXCEPT !.pc = "done", !.err = b.err]
                                  ELSE [c EXCEPT !.pc = "layers", !.j = 1,
                                                 !.items = LayerItems(db[c.i].value,
                                                                      c.reverse_layers)]]
          ELSE /\ procs' = [procs EXCEPT ![p].i = c.i + 1]
               /\ UNCHANGED elems
    /\ UNCHANGED <<db, mats, nLayers, ncalls, last, bldg, gen, prj, built>>

\* one pass of the record loop of caller p: the loop ends, or the record is
\* skipped, or _set_basic_data copies it onto the caller's element
ScanStep(p) ==
    /\ procs[p].pc = "scan"
    /\ LET c == procs[p]
       IN IF c.i > Len(db)
          THEN /\ procs' = [procs EXCEPT ![p].pc = "done"]
               /\ UNCHANGED elems
          ELSE IF Matches(db[c.i].key, db[c.i].value, c.year, c.construction,
                          c.element_type)
          THEN LET b == SetBasicData(elems[p], db[c.i].value)
               IN /\ elems' = [elems EXCEPT ![p] = b.el]
                  /\ procs' = [procs EXCEPT ![p] =
                                  IF b.err # "ok"
                                  THEN [c EXCEPT !.pc = "done", !.err = b.err]
                                  ELSE [c EXCEPT !.pc = "layers", !.j = 1,
                                                 !.items = LayerItems(db[c.i].value,
                                                                      c.reverse_layers)]]
          ELSE /\ procs' = [procs EXCEPT ![p].i = c.i + 1]
               /\ UNCHANGED elems
    /\ UNCHANGED <<db, mats, nLayers, ncalls, last, bldg, gen, prj, built>>

\* one pass of the layer loop of caller p: the loop ends, or a layer and its
\* material are constructed and the material is looked up
LayerStep(p) ==
    /\ procs[p].pc = "layers"
    /\ LET c == procs[p]
       IN IF c.j > Len(c.items)
          THEN /\ procs' = [procs EXCEPT ![p].pc = "scan", ![p].i = c.i + 1]
               /\ UNCHANGED <<elems, mats, nLayers>>
          ELSE LET m == AddLayer([el |-> elems[p], mats |-> mats, nl |-> nLayers,
                                  err |-> "ok", applied |-> <<>>], c.items[c.j])
               IN /\ elems' = [elems EXCEPT ![p] = m.el]
                  /\ mats' = m.mats
                  /\ nLayers' = m.nl
                  /\ procs' = [procs EXCEPT ![p] =
                                  IF m.err # "ok"
                                  THEN [c EXCEPT !.pc = "done", !.err = m.err]
                                  ELSE [c EXCEPT !.j = c.j + 1]]
    /\ UNCHANGED <<db, ncalls, last, bldg, gen, prj, built>>

\* the first element is an outer wall, the second an outer wall or a window
CNext ==
    \/ Len(elems) = 0 /\ Construct(OuterWall, PairIds)
    \/ \E t \in PairTypes : Len(elems) = 1 /\ Construct(t, PairIds)
    \/ \E p \in Procs, year \in ConcurrentYears, construction \in Constructions,
          reverse_layers \in BOOLEAN :
          Begin(p, year, construction, reverse_layers)
    \/ \E p \in Procs : ScanStep(p)
    \/ \E p \in Procs : LayerStep(p)

SpecConcurrent == RInit /\ [][CNext]_vars

\* what caller p gets when it runs alone, from the element as it was when the
\* caller entered
Alone(p) ==
    LoadTypeElement(procs[p].pre, procs[p].year, procs[p].construction,
                    procs[p].element_binding, None, procs[p].reverse_layers, <<>>, 0)

AllDone == \A p \in Procs : procs[p].pc = "done"

\* C21: two callers resolve elements concurrently on distinct elements and one
\* shared database; under every interleaving of their steps each caller's
\* element ends as it does when the caller runs alone (attributes, layers,
\* materials and the exception raised), and the database is unchanged.
C21_InterferenceFree ==
    \A p \in Procs :
        procs[p].pc = "done" =>
            /\ ElementView(elems[p], mats) = ElementView(Alone(p).el, Alone(p).mats)
            /\ procs[p].err = Alone(p).err
            /\ db = procs[p].element_binding

\* both callers have applied a record with layers, and their layers were
\* constructed in turns
C21_Witness ==
    /\ AllDone
    /\ \A p \in Procs : Len(elems[p].layer) >= 2
    /\ elems[1].layer[1].oid < elems[2].layer[1].oid
    /\ elems[2].layer[1].oid < elems[1].layer[2].oid

----------------------------------------------------------------------------
(* Project: the list of buildings, the calculation settings and the data     *)
(* handle.  Buildings live in prj.heap and the list holds their indices, so  *)
(* that list.remove, which compares by identity, is a comparison of indices. *)
(* calc_building_parameter and retrofit_building are methods of Building;    *)
(* a building carries the outcome its calculation has (fate) and records the *)
(* invocations it receives.                                                  *)

BuildingIds == {1, 2, 3}
\* calls on a project besides the constructor and the two add_ methods
ProjectCalls == {1}
\* the same where only the settings, set_default and load_project are called
SettingCalls == {1, 2}

IwuSingleFamilyDwelling == "IwuSingleFamilyDwelling"
TabulaDeSingleFamilyHouse == "TabulaDeSingleFamilyHouse"
Office == "Office"
IwuLight == [value |-> "iwu_light", is_kfw |-> FALSE]
TabulaDeStandard == [value |-> "tabula_de_standard", is_kfw |-> FALSE]

CalcFates == {"ok", "ZeroDivisionError", "TypeError", "KeyError"}
GenerateFates == {"ok", "ZeroDivisionError"}

\* what a new building's calculation and its generate_archetype do: one of
\* them may fail
BuildingFates ==
    {f \in CalcFates \X GenerateFates : f[1] = "ok" \/ f[2] = "ok"}
TypeOfRetrofitArgs == {None, Some("retrofit"), Some("adv_retrofit"), Some("deep")}
YearOfRetrofitArgs == {None, Some(2)}

\* Python values by their type: a list never compares equal to an int, a bool
\* or a str
PyInt(n) == [type |-> "int", value |-> <<n>>]
PyBool(b) == [type |-> "bool", value |-> <<b>>]
PyStr(s) == [type |-> "str", value |-> <<s>>]
PyList(items) == [type |-> "list", value |-> items]
PyNone == [type |-> "NoneType", value |-> <<>>]
NumberOfElementsArgs == {PyInt(n) : n \in 0..5} \cup {PyList(<<1, 2, 3, 4>>)}
MergeWindowsArgs == {PyBool(TRUE), PyBool(FALSE), PyList(<<TRUE, FALSE>>)}
UsedLibraryArgs ==
    {PyStr("AixLib"), PyStr("IBPSA"), PyStr("Buildings"),
     PyList(<<"AixLib", "IBPSA">>)}

\* bool(value) of an int, a bool or None
Truthy(v) ==
    IF v.type = "bool" THEN v.value[1]
    ELSE IF v.type = "int" THEN v.value[1] # 0
    ELSE FALSE

\* value is True
IsTrue(v) == v.type = "bool" /\ v.value[1]

NoProjectCall == [op |-> "none", err |-> "ok"]

\* the buildings, settings and data handle a call starts from
ProjectSnapshot(q) ==
    [buildings |-> q.buildings, heap |-> q.heap, data |-> q.data,
     number_of_elements_calc |-> q.number_of_elements_calc,
     merge_windows_calc |-> q.merge_windows_calc,
     used_library_calc |-> q.used_library_calc]

\* Project(load_data): with a load_data that is true the constructor raises
\* ValueError and there is no project; heap holds every building constructed
\* with the project as parent, in the list or not
NewProject(load_data) ==
    /\ ~prj.constructed
    /\ prj' = IF Truthy(load_data)
              THEN [constructed |-> FALSE,
                    last |-> [op |-> "Project", err |-> "ValueError"]]
              ELSE [constructed |-> TRUE, buildings |-> <<>>,
                    load_data |-> load_data,
                    number_of_elements_calc |-> PyInt(2),
                    merge_windows_calc |-> PyBool(FALSE),
                    used_library_calc |-> PyStr("AixLib"), data |-> None,
                    heap |-> <<>>, ncalls |-> 0,
                    last |-> NoProjectCall]
    /\ UNCHANGED <<db, elems, mats, nLayers, ncalls, last, bldg, gen, procs, built>>

\* the settings a project passes to calc_building_parameter
CalcSettings(q) ==
    [number_of_elements |-> q.number_of_elements_calc,
     merge_windows |-> q.merge_windows_calc,
     used_library |-> q.used_library_calc]

\* a building constructed with the project as parent: it joins the list
NewBuilding(q, kind, fate) ==
    [q EXCEPT !.heap = Append(@, [kind |-> kind, fate |-> fate,
                                  number_of_elements_calc |-> None,
                                  merge_windows_calc |-> None,
                                  used_library_calc |-> None,
                                  generated |-> 0, calcs |-> <<>>,
                                  retrofits |-> <<>>]),
              !.buildings = Append(@, Len(q.heap) + 1)]

\* bldg.calc_building_parameter(...): the invocation is recorded
CalcBuildingParameter(q, b) ==
    [q EXCEPT !.heap[b].calcs = Append(@, CalcSettings(q))]

\* bldg.retrofit_building(...): the invocation is recorded with the data
\* handle it runs under
RetrofitBuilding(q, b) ==
    [q EXCEPT !.heap[b].retrofits = Append(@, q.data)]

\* datahandling.allowed_geometries.get(construction_data, [])
AllowedGeometries(construction_data) ==
    IF construction_data \in {IwuHeavy, IwuLight}
    THEN {IwuSingleFamilyDwelling, Office}
    ELSE IF construction_data = TabulaDeStandard
    THEN {TabulaDeSingleFamilyHouse}
    ELSE {}

\* list.remove(x): the first element equal to x goes
RemoveFirst(s, x) ==
    LET k == CHOOSE k \in 1..Len(s) : s[k] = x /\ \A j \in 1..(k - 1) : s[j] # x
    IN SubSeq(s, 1, k - 1) \o SubSeq(s, k + 1, Len(s))

\* for bldg in reversed(self.buildings) with raise_errors True: the iterator
\* holds an index that counts down; the first exception ends the call
RECURSIVE ReversedRaising(_, _)
ReversedRaising(st, index) ==
    IF index < 1 \/ index > Len(st.q.buildings)
    THEN st
    ELSE LET b == st.q.buildings[index]
             st1 == [st EXCEPT !.q = CalcBuildingParameter(st.q, b),
                               !.order = Append(@, b)]
         IN IF st.q.heap[b].fate = "ok"
            THEN ReversedRaising(st1, index - 1)
            ELSE [st1 EXCEPT !.err = st.q.heap[b].fate]

\* mutant: after a removal the iterator stays on its index
RECURSIVE ReversedRemoving_IndexKept(_, _)
ReversedRemoving_IndexKept(st, index) ==
    IF index < 1 \/ index > Len(st.q.buildings)
    THEN st
    ELSE LET b == st.q.buildings[index]
             st1 == [st EXCEPT !.q = CalcBuildingParameter(st.q, b),
                               !.order = Append(@, b)]
         IN IF st.q.heap[b].fate = "ok"
            THEN ReversedRemoving_IndexKept(st1, index - 1)
            ELSE IF st.q.heap[b].fate \in {"ZeroDivisionError", "TypeError"}
            THEN ReversedRemoving_IndexKept(
                     [st1 EXCEPT !.q.buildings = RemoveFirst(@, b)], index)
            ELSE [st1 EXCEPT !.err = st.q.heap[b].fate]

\* the same loop with raise_errors False: a ZeroDivisionError or TypeError is
\* caught and the building removed from the list being iterated; any other
\* exception ends the call
RECURSIVE ReversedRemoving(_, _)
ReversedRemoving(st, index) ==
    IF index < 1 \/ index > Len(st.q.buildings)
    THEN st
    ELSE LET b == st.q.buildings[index]
             st1 == [st EXCEPT !.q = CalcBuildingParameter(st.q, b),
                               !.order = Append(@, b)]
         IN IF st.q.heap[b].fate = "ok"
            THEN ReversedRemoving(st1, index - 1)
            ELSE IF st.q.heap[b].fate \in {"ZeroDivisionError", "TypeError"}
            THEN ReversedRemoving(
                     [st1 EXCEPT !.q.buildings = RemoveFirst(@, b)], index - 1)
            ELSE [st1 EXCEPT !.err = st.q.heap[b].fate]

\* Project.calc_all_buildings(raise_errors)
CalcAllBuildings(raise_errors) ==
    /\ prj.constructed
    /\ LET st0 == [q |-> prj, order |-> <<>>, err |-> "ok"]
           st == IF raise_errors
                 THEN ReversedRaising(st0, Len(prj.buildings))
                 ELSE ReversedRemoving(st0, Len(prj.buildings))
       IN prj' = [st.q EXCEPT !.ncalls = @ + 1,
                              !.last = [op |-> "calc_all_buildings",
                                        raise_errors |-> raise_errors,
                                        pre |-> ProjectSnapshot(prj),
                                        order |-> st.order, err |-> st.err]]
    /\ UNCHANGED <<db, elems, mats, nLayers, ncalls, last, bldg, gen, procs, built>>

\* Building.generate_archetype() as the project sees it: the call is counted
GenerateArchetypeCall(q, b) ==
    [q EXCEPT !.heap[b].generated = @ + 1]

\* Project.add_residential(geometry_data, construction_data, ...): the data
\* handle, the geometry assertion, the constructor, generate_archetype
AddResidential(geometry_data, construction_data, fate, generate) ==
    /\ prj.constructed
    /\ Len(prj.heap) + 1 \in BuildingIds
    /\ LET q1 == [prj EXCEPT !.data = Some(construction_data)]
           type_bldg == Len(prj.heap) + 1
           q2 == GenerateArchetypeCall(NewBuilding(q1, geometry_data, fate), type_bldg)
           call == [op |-> "add_residential", pre |-> ProjectSnapshot(prj),
                    returned |-> None, err |-> "ok"]
       IN prj' = IF geometry_data \notin AllowedGeometries(construction_data)
                 THEN [q1 EXCEPT !.last = [call EXCEPT !.err = "AssertionError"]]
                 ELSE IF generate # "ok"
                 THEN [q2 EXCEPT !.last = [call EXCEPT !.err = generate]]
                 ELSE [q2 EXCEPT !.last = [call EXCEPT !.returned = Some(type_bldg)]]
    /\ UNCHANGED <<db, elems, mats, nLayers, ncalls, last, bldg, gen, procs, built>>

\* Project.add_non_residential(construction_data, ...): the two assertions,
\* the data handle, the constructor, generate_archetype and
\* calc_building_parameter with the project's settings
AddNonResidential(construction_data, fate, generate) ==
    /\ prj.constructed
    /\ Len(prj.heap) + 1 \in BuildingIds
    /\ LET q1 == [prj EXCEPT !.data = Some(construction_data)]
           type_bldg == Len(prj.heap) + 1
           q2 == GenerateArchetypeCall(NewBuilding(q1, Office, fate), type_bldg)
           q3 == CalcBuildingParameter(q2, type_bldg)
           call == [op |-> "add_non_residential", pre |-> ProjectSnapshot(prj),
                    returned |-> None, err |-> "ok"]
       IN prj' = IF construction_data.value \notin {"iwu_heavy", "iwu_light"}
                    \/ Office \notin AllowedGeometries(construction_data)
                 THEN [prj EXCEPT !.last = [call EXCEPT !.err = "AssertionError"]]
                 ELSE IF generate # "ok"
                 THEN [q2 EXCEPT !.last = [call EXCEPT !.err = generate]]
                 ELSE IF fate # "ok"
                 THEN [q3 EXCEPT !.last = [call EXCEPT !.err = fate]]
                 ELSE [q3 EXCEPT !.last = [call EXCEPT !.returned = Some(type_bldg)]]
    /\ UNCHANGED <<db, elems, mats, nLayers, ncalls, last, bldg, gen, procs, built>>

\* isinstance(bldg, SingleFamilyHouse)
IsSingleFamilyHouse(q, b) == q.heap[b].kind = TabulaDeSingleFamilyHouse

\* mutant: each building is retrofitted as soon as it is classified
RECURSIVE ClassifyBuildings_RetrofitAtOnce(_, _, _, _)
ClassifyBuildings_RetrofitAtOnce(st, i, year_of_retrofit, type_of_retrofit) ==
    IF i > Len(st.q.buildings)
    THEN st
    ELSE LET b == st.q.buildings[i]
         IN IF IsSingleFamilyHouse(st.q, b)
            THEN IF type_of_retrofit = None
                 THEN [st EXCEPT !.err = "ValueError"]
                 ELSE ClassifyBuildings_RetrofitAtOnce(
                          [st EXCEPT !.q = RetrofitBuilding(st.q, b),
                                     !.order = Append(@, b)],
                          i + 1, year_of_retrofit, type_of_retrofit)
            ELSE IF year_of_retrofit = None
                 THEN [st EXCEPT !.err = "ValueError"]
                 ELSE ClassifyBuildings_RetrofitAtOnce(
                          [st EXCEPT !.q = RetrofitBuilding(st.q, b),
                                     !.order = Append(@, b)],
                          i + 1, year_of_retrofit, type_of_retrofit)

\* the loop that sorts the buildings into tabula_buildings and iwu_buildings
\* and raises for the first building whose argument is missing
RECURSIVE ClassifyBuildings(_, _, _, _)
ClassifyBuildings(st, i, year_of_retrofit, type_of_retrofit) ==
    IF i > Len(st.q.buildings)
    THEN st
    ELSE LET b == st.q.buildings[i]
         IN IF IsSingleFamilyHouse(st.q, b)
            THEN IF type_of_retrofit = None
                 THEN [st EXCEPT !.err = "ValueError"]
                 ELSE ClassifyBuildings(
                          [st EXCEPT !.tabula_buildings = Append(@, b)],
                          i + 1, year_of_retrofit, type_of_retrofit)
            ELSE IF year_of_retrofit = None
                 THEN [st EXCEPT !.err = "ValueError"]
                 ELSE ClassifyBuildings(
                          [st EXCEPT !.iwu_buildings = Append(@, b)],
                          i + 1, year_of_retrofit, type_of_retrofit)

\* for bld in buildings: bld.retrofit_building(...)
RECURSIVE RetrofitEach(_, _, _)
RetrofitEach(st, buildings, i) ==
    IF i > Len(buildings)
    THEN st
    ELSE RetrofitEach([st EXCEPT !.q = RetrofitBuilding(st.q, buildings[i]),
                                 !.order = Append(@, buildings[i])],
                      buildings, i + 1)

\* the data handle becomes DataClass(construction_data)
SetData(st, construction_data) ==
    [st EXCEPT !.q.data = Some(construction_data)]

\* Project.retrofit_all_buildings(year_of_retrofit, type_of_retrofit).
\* equal is the outcome of self.data == DataClass(iwu_heavy); it can be true
\* only when the handle was made for iwu_heavy.
RetrofitAllBuildings(year_of_retrofit, type_of_retrofit, equal) ==
    /\ prj.constructed
    /\ equal => prj.data = Some(IwuHeavy)
    /\ LET st0 == [q |-> prj, tabula_buildings |-> <<>>, iwu_buildings |-> <<>>,
                   order |-> <<>>, err |-> "ok"]
           st1 == ClassifyBuildings(st0, 1, year_of_retrofit, type_of_retrofit)
           st == IF type_of_retrofit \notin {None, Some("adv_retrofit"), Some("retrofit")}
                 THEN [st0 EXCEPT !.err = "AssertionError"]
                 ELSE IF st1.err # "ok"
                 THEN st1
                 ELSE IF equal
                 THEN RetrofitEach(
                          SetData(RetrofitEach(st1, st1.iwu_buildings, 1),
                                  TabulaDeStandard),
                          st1.tabula_buildings, 1)
                 ELSE RetrofitEach(
                          SetData(RetrofitEach(st1, st1.tabula_buildings, 1),
                                  IwuHeavy),
                          st1.iwu_buildings, 1)
       IN prj' = [st.q EXCEPT !.ncalls = @ + 1,
                              !.last = [op |-> "retrofit_all_buildings",
                                        year_of_retrofit |-> year_of_retrofit,
                                        type_of_retrofit |-> type_of_retrofit,
                                        pre |-> ProjectSnapshot(prj),
                                        order |-> st.order, err |-> st.err]]
    /\ UNCHANGED <<db, elems, mats, nLayers, ncalls, last, bldg, gen, procs, built>>

\* for bldg in self.buildings: bldg.<setting> = value
RECURSIVE SetOnBuildings(_, _, _, _)
SetOnBuildings(q, setting, value, i) ==
    IF i > Len(q.buildings)
    THEN q
    ELSE SetOnBuildings(
             [q EXCEPT !.heap[q.buildings[i]][setting] = Some(value)],
             setting, value, i + 1)

\* the body of the three setters: the assertion rejects the list it names;
\* any other value is stored on the project and on every building of the list
AssignSetting(q, setting, value, rejected) ==
    LET call == [op |-> setting, value |-> value,
                 pre |-> ProjectSnapshot(q), err |-> "ok"]
    IN IF value # rejected
       THEN [SetOnBuildings([q EXCEPT ![setting] = value], setting, value, 1)
                EXCEPT !.last = call]
       ELSE [q EXCEPT !.last = [call EXCEPT !.err = "AssertionError"]]

\* the setter of Project.number_of_elements_calc
SetNumberOfElementsCalc(value) ==
    /\ prj.constructed
    /\ prj' = [AssignSetting(prj, "number_of_elements_calc", value,
                             PyList(<<1, 2, 3, 4>>))
                  EXCEPT !.ncalls = @ + 1]
    /\ UNCHANGED <<db, elems, mats, nLayers, ncalls, last, bldg, gen, procs, built>>

\* the setter of Project.merge_windows_calc
SetMergeWindowsCalc(value) ==
    /\ prj.constructed
    /\ prj' = [AssignSetting(prj, "merge_windows_calc", value,
                             PyList(<<TRUE, FALSE>>))
                  EXCEPT !.ncalls = @ + 1]
    /\ UNCHANGED <<db, elems, mats, nLayers, ncalls, last, bldg, gen, procs, built>>

\* the setter of Project.used_library_calc
SetUsedLibraryCalc(value) ==
    /\ prj.constructed
    /\ prj' = [AssignSetting(prj, "used_library_calc", value,
                             PyList(<<"AixLib", "IBPSA">>))
                  EXCEPT !.ncalls = @ + 1]
    /\ UNCHANGED <<db, elems, mats, nLayers, ncalls, last, bldg, gen, procs, built>>

\* Project.instantiate_data_class(): DataClass(construction_data=iwu_heavy)
InstantiateDataClass == Some(IwuHeavy)

\* Project.set_default(load_data): the list of buildings is emptied (the
\* buildings themselves stay as they are), the data handle is made anew for
\* load_data True, kept for a load_data that is false and dropped for any
\* other, and the three settings go back to 2, False and "AixLib"
SetDefault(load_data) ==
    /\ prj.constructed
    /\ prj' = [prj EXCEPT
                  !.buildings = <<>>,
                  !.data = IF IsTrue(load_data) THEN InstantiateDataClass
                           ELSE IF ~Truthy(load_data) THEN @
                           ELSE None,
                  !.number_of_elements_calc = PyInt(2),
                  !.merge_windows_calc = PyBool(FALSE),
                  !.used_library_calc = PyStr("AixLib"),
                  !.ncalls = @ + 1,
                  !.last = [op |-> "set_default", load_data |-> load_data,
                            pre |-> ProjectSnapshot(prj), err |-> "ok"]]
    /\ UNCHANGED <<db, elems, mats, nLayers, ncalls, last, bldg, gen, procs, built>>

\* the project files: the three settings and the classes of the buildings
ProjectFiles ==
    {[number_of_elements_calc |-> PyInt(3), merge_windows_calc |-> PyBool(TRUE),
      used_library_calc |-> PyStr("IBPSA"), buildings |-> <<kind>>] :
        kind \in {Office, TabulaDeSingleFamilyHouse}}

\* the buildings of a file, from the i-th on, constructed with the project as
\* parent
RECURSIVE LoadBuildings(_, _, _)
LoadBuildings(q, kinds, i) ==
    IF i > Len(kinds) THEN q
    ELSE LoadBuildings(NewBuilding(q, kinds[i], "ok"), kinds, i + 1)

\* tjson_in.load_teaser_json(path, prj), file being what the path holds: the
\* settings of the file are assigned to the project, then its buildings are
\* constructed
LoadTeaserJson(q, file) ==
    LET q1 == AssignSetting(q, "number_of_elements_calc",
                            file.number_of_elements_calc, PyList(<<1, 2, 3, 4>>))
        q2 == AssignSetting(q1, "merge_windows_calc",
                            file.merge_windows_calc, PyList(<<TRUE, FALSE>>))
        q3 == AssignSetting(q2, "used_library_calc",
                            file.used_library_calc, PyList(<<"AixLib", "IBPSA">>))
    IN LoadBuildings(q3, file.buildings, 1)

\* Project.load_project(path)
LoadProject(file) ==
    /\ prj.constructed
    /\ Len(prj.heap) + Len(file.buildings) \in BuildingIds
    /\ prj' = [LoadTeaserJson(prj, file) EXCEPT
                  !.ncalls = @ + 1,
                  !.last = [op |-> "load_project", pre |-> ProjectSnapshot(prj),
                            err |-> "ok"]]
    /\ UNCHANGED <<db, elems, mats, nLayers, ncalls, last, bldg, gen, procs, built>>

ProjectInit == RInit /\ db = <<VersionEntry>>

\* the project exists and its next call is one of the calls explored
Within(calls) == prj.constructed /\ prj.ncalls + 1 \in calls

PrjNext ==
    \/ \E load_data \in BOOLEAN : NewProject(PyBool(load_data))
    \/ \E geometry_data \in {IwuSingleFamilyDwelling, TabulaDeSingleFamilyHouse},
          construction_data \in {IwuHeavy, TabulaDeStandard},
          f \in BuildingFates :
          AddResidential(geometry_data, construction_data, f[1], f[2])
    \/ \E construction_data \in {IwuHeavy, TabulaDeStandard},
          f \in BuildingFates :
          AddNonResidential(construction_data, f[1], f[2])
    \/ Within(ProjectCalls) /\ \E raise_errors \in BOOLEAN :
          CalcAllBuildings(raise_errors)
    \/ Within(ProjectCalls) /\ \E year_of_retrofit \in YearOfRetrofitArgs,
          type_of_retrofit \in TypeOfRetrofitArgs, equal \in BOOLEAN :
          RetrofitAllBuildings(year_of_retrofit, type_of_retrofit, equal)
    \/ Within(ProjectCalls) /\ \E value \in NumberOfElementsArgs :
          SetNumberOfElementsCalc(value)
    \/ Within(ProjectCalls) /\ \E value \in MergeWindowsArgs :
          SetMergeWindowsCalc(value)
    \/ Within(ProjectCalls) /\ \E value \in UsedLibraryArgs :
          SetUsedLibraryCalc(value)
    \/ Within(ProjectCalls) /\ \E load_data \in BOOLEAN :
          SetDefault(PyBool(load_data))
    \/ Within(ProjectCalls) /\ SetDefault(PyNone)
    \/ Within(ProjectCalls) /\ SetDefault(PyInt(1))
    \/ Within(ProjectCalls) /\ \E file \in ProjectFiles : LoadProject(file)

SpecProject == ProjectInit /\ [][PrjNext]_vars

\* the settings of a project and of its buildings: buildings are added, the
\* settings assigned, the project reset and a file loaded, two such calls in
\* every order
SettingsNext ==
    \/ \E load_data \in BOOLEAN : NewProject(PyBool(load_data))
    \/ AddResidential(IwuSingleFamilyDwelling, IwuHeavy, "ok", "ok")
    \/ \E construction_data \in {IwuLight, TabulaDeStandard} :
          AddNonResidential(construction_data, "ok", "ok")
    \/ Within(SettingCalls) /\ \E value \in NumberOfElementsArgs :
          SetNumberOfElementsCalc(value)
    \/ Within(SettingCalls) /\ \E value \in MergeWindowsArgs :
          SetMergeWindowsCalc(value)
    \/ Within(SettingCalls) /\ \E value \in UsedLibraryArgs :
          SetUsedLibraryCalc(value)
    \/ Within(SettingCalls) /\ \E load_data \in BOOLEAN :
          SetDefault(PyBool(load_data))
    \/ Within(SettingCalls) /\ SetDefault(PyNone)
    \/ Within(SettingCalls) /\ SetDefault(PyInt(1))
    \/ Within(SettingCalls) /\ \E file \in ProjectFiles : LoadProject(file)

SpecSettings == ProjectInit /\ [][SettingsNext]_vars

----------------------------------------------------------------------------
\* the last project call was calc_all_buildings(raise_errors=False) and it
\* returned
CalcAllReturned ==
    /\ prj.constructed
    /\ prj.last.op = "calc_all_buildings"
    /\ ~prj.last.raise_errors
    /\ prj.last.err = "ok"

\* how often x occurs in s
Occurrences(s, x) == Cardinality({k \in 1..Len(s) : s[k] = x})

\* the elements of s whose calculation does not raise one of the two caught
\* exceptions, in the order of s
Survivors(s, heap) ==
    LET Calculable(b) == heap[b].fate \notin {"ZeroDivisionError", "TypeError"}
    IN SelectSeq(s, Calculable)

\* C22: calc_all_buildings(raise_errors=False) invokes calc_building_parameter
\* exactly once on every building that was in the list when the call began;
\* when it returns, the list holds exactly the buildings whose calculation
\* raised neither ZeroDivisionError nor TypeError, in their original order, and
\* removing a failing building neither skips nor repeats another one.
C22_CalcAllRemovesFailing ==
    CalcAllReturned =>
        LET pre == prj.last.pre
        IN /\ \A b \in 1..Len(prj.heap) :
                  /\ Occurrences(prj.last.order, b) = Occurrences(pre.buildings, b)
                  /\ Len(prj.heap[b].calcs) =
                         Len(pre.heap[b].calcs) + Occurrences(pre.buildings, b)
           /\ prj.last.order = Reverse(pre.buildings)
           /\ prj.buildings = Survivors(pre.buildings, pre.heap)

\* of three buildings the first and the second fail and are removed, the third
\* stays
C22_Witness ==
    /\ CalcAllReturned
    /\ prj.last.pre.buildings = <<1, 2, 3>>
    /\ prj.heap[1].fate = "TypeError"
    /\ prj.heap[2].fate = "ZeroDivisionError"
    /\ prj.buildings = <<3>>

----------------------------------------------------------------------------
\* the last project call assigned Project.number_of_elements_calc
SetterCalled ==
    /\ prj.constructed
    /\ prj.last.op = "number_of_elements_calc"

ValidNumberOfElements == {PyInt(n) : n \in 1..4}

\* C23: number_of_elements_calc has to be 1, 2, 3 or 4: the setter's assertion
\* rejects any other value and leaves the project's value and every building's
\* value as they were; an accepted value is stored on the project and on every
\* building in the list.
C23_OutOfRangeRejected ==
    SetterCalled =>
        IF prj.last.value \in ValidNumberOfElements
        THEN /\ prj.last.err = "ok"
             /\ prj.number_of_elements_calc = prj.last.value
             /\ \A k \in 1..Len(prj.buildings) :
                    prj.heap[prj.buildings[k]].number_of_elements_calc
                        = Some(prj.last.value)
        ELSE /\ prj.last.err = "AssertionError"
             /\ prj.number_of_elements_calc = prj.last.pre.number_of_elements_calc
             /\ \A b \in 1..Len(prj.heap) :
                    prj.heap[b].number_of_elements_calc
                        = prj.last.pre.heap[b].number_of_elements_calc

----------------------------------------------------------------------------
\* the last project call was add_residential and it returned a building
AddResidentialReturned ==
    /\ prj.constructed
    /\ prj.last.op = "add_residential"
    /\ prj.last.returned # None

\* C24: add_residential also calculates the new building: when it returns,
\* generate_archetype has run on the returned building and then
\* calc_building_parameter has been invoked on it once, with the project's
\* number_of_elements_calc, merge_windows_calc and used_library_calc.
C24_AddResidentialCalculates ==
    AddResidentialReturned =>
        LET type_bldg == prj.heap[prj.last.returned[1]]
        IN /\ type_bldg.generated = 1
           /\ type_bldg.calcs = <<CalcSettings(prj)>>

----------------------------------------------------------------------------
\* the last project call was retrofit_all_buildings
RetrofitCalled ==
    /\ prj.constructed
    /\ prj.last.op = "retrofit_all_buildings"

\* the arguments of the last retrofit_all_buildings do not fit the buildings
\* the project held
InvalidRetrofitRequest ==
    LET pre == prj.last.pre
        Present(tabula) ==
            \E k \in 1..Len(pre.buildings) :
                (pre.heap[pre.buildings[k]].kind = TabulaDeSingleFamilyHouse) = tabula
    IN \/ prj.last.type_of_retrofit
              \notin {None, Some("retrofit"), Some("adv_retrofit")}
       \/ Present(TRUE) /\ prj.last.type_of_retrofit = None
       \/ Present(FALSE) /\ prj.last.year_of_retrofit = None

\* C27: retrofit_all_buildings validates before it acts: with a type_of_retrofit
\* other than None, 'retrofit', 'adv_retrofit', or a TABULA building and no
\* type_of_retrofit, or another building and no year_of_retrofit, the call
\* raises, retrofit_building has been invoked on no building and the data
\* handle is the one the call started with.
C27_RetrofitValidatesFirst ==
    (RetrofitCalled /\ InvalidRetrofitRequest) =>
        /\ prj.last.err \in {"AssertionError", "ValueError"}
        /\ prj.last.order = <<>>
        /\ \A b \in 1..Len(prj.heap) :
               prj.heap[b].retrofits = prj.last.pre.heap[b].retrofits
        /\ prj.data = prj.last.pre.data
        /\ prj.buildings = prj.last.pre.buildings

\* a valid building is classified before the loop meets the TABULA building
\* that has no type_of_retrofit
C27_Witness ==
    /\ RetrofitCalled
    /\ prj.last.err = "ValueError"
    /\ prj.last.year_of_retrofit # None
    /\ prj.last.type_of_retrofit = None
    /\ Len(prj.buildings) = 2
    /\ prj.heap[prj.buildings[1]].kind = Office
    /\ prj.heap[prj.buildings[2]].kind = TabulaDeSingleFamilyHouse

----------------------------------------------------------------------------
\* the positions of the log of the last run that hold a call of kind ev
LogAt(ev) == {i \in 1..Len(gen.log) : gen.log[i].ev = ev}

\* the positions that hold the call of kind ev on element k of zone z
LogOf(ev, z, k) ==
    {i \in LogAt(ev) : gen.log[i].zone = z /\ gen.log[i].index = k}

\* the name table an element of category t is created from
NamesOf(t) ==
    CASE t = OuterWall -> bldg.outer_wall_names
      [] t = Window -> bldg.window_names
      [] t = Rooftop -> bldg.roof_names
      [] t = GroundFloor -> bldg.ground_floor_names
      [] t = InnerWall -> bldg.inner_wall_names
      [] t = Ceiling -> bldg.ceiling_names
      [] OTHER -> bldg.floor_names

\* el carries the name, tilt and orientation of an entry of its name table
FromTable(el) ==
    \E n \in 1..Len(NamesOf(el.type)) :
        /\ el.name = Some(NamesOf(el.type)[n].name)
        /\ el.tilt = Some(NamesOf(el.type)[n].tilt)
        /\ el.orientation = Some(NamesOf(el.type)[n].orientation)

\* C25: in generate_archetype the resolver runs on an element before its name,
\* tilt and orientation are written, so that the three equal the name table's
\* values after the run; no area is committed to an element before every
\* element of every zone has been created and resolved; and the zones derive
\* inner wall area and volume only after all areas are committed.
C25_StageOrdering ==
    Generated =>
        /\ \A i \in LogAt("name") :
               \E j \in LogOf("resolve", gen.log[i].zone, gen.log[i].index) : j < i
        /\ \A i \in LogAt("commit") :
               \A j \in LogAt("resolve") \cup LogAt("name") : j < i
        /\ \A i \in LogAt("derive") : \A j \in LogAt("commit") : j < i
        /\ \A z \in ZoneIndices :
               \A k \in 1..Len(bldg.thermal_zones[z].elements) :
                   LET el == bldg.thermal_zones[z].elements[k]
                   IN IF gen.err = "ok"
                      THEN /\ Cardinality(LogOf("resolve", z, k)) = 1
                           /\ Cardinality(LogOf("name", z, k)) = 1
                           /\ FromTable(el)
                           /\ el.area # None => LogOf("commit", z, k) # {}
                           /\ bldg.thermal_zones[z].derived
                      ELSE /\ el.area = None
                           /\ ~bldg.thermal_zones[z].derived

\* a run on a dwelling of two floors went through: ceilings and floors were
\* created, areas committed (the rooftop, key -1 of outer_area, before the
\* first window) and the zone derived
C25_Witness ==
    /\ Generated /\ gen.err = "ok"
    /\ bldg.number_of_floors = 2
    /\ Cardinality(LogAt("resolve")) = 13
    /\ Cardinality(LogAt("commit")) = 10
    /\ Cardinality(LogAt("derive")) = 1
    /\ \E i \in LogOf("commit", 1, 9) : \E j \in LogOf("commit", 1, 5) : i < j

----------------------------------------------------------------------------
\* the last call was load_type_element with a category override and it
\* applied a record
OverrideApplied ==
    /\ IsLoad
    /\ last.element_type # None
    /\ last.applied # <<>>

\* C26: with a category override load_type_element selects the records whose
\* key starts with the override, and _set_basic_data still copies the
\* coefficients the element's runtime type calls for: an OuterWall, Rooftop or
\* Door populated as "InnerWall" is matched against InnerWall records and takes
\* all four inner and outer coefficients from the record, failing with
\* KeyError on a record that holds the inner ones only.
C26_OverrideSelectsTypeCopies ==
    OverrideApplied =>
        /\ \A n \in 1..Len(last.applied) :
               /\ IsPrefixOf(last.element_type[1], last.applied[n])
               /\ \E i \in Selected : db[i].key = last.applied[n]
        /\ IsOpaqueOuter(Target.type) =>
               IF InnerCoefficients \cup OuterCoefficients \subseteq DOMAIN LastApplied
               THEN Received(InnerCoefficients \cup OuterCoefficients)
               ELSE /\ last.err = "KeyError"
                    /\ Received(InnerCoefficients)
                    /\ \A f \in OuterCoefficients : Target[f] = last.pre[f]
                    /\ NewLayers = <<>>
        /\ (~IsOpaqueOuter(Target.type) /\ Target.type # Window) =>
               /\ Received(InnerCoefficients)
               /\ \A f \in OuterCoefficients : Target[f] = last.pre[f]

\* an OuterWall was populated as "InnerWall" from the InnerWall record, which
\* has no outer coefficients
C26_Witness ==
    /\ OverrideApplied
    /\ last.element_type = Some(InnerWall)
    /\ Target.type = OuterWall
    /\ last.applied = <<Pool(4).key>>
    /\ last.err = "KeyError"
    /\ Target.inner_radiation = Some(Pool(4).value.inner_radiation)
    /\ Target.outer_radiation = None

----------------------------------------------------------------------------
(* generate_archetype over net leased areas negative, zero, small and large, *)
(* for every categorical value inside and outside its table; the areas it    *)
(* estimates are attributes of the dwelling the call leaves behind.          *)

EstimateAreaInputs == {0 - 120, 0, 1, 1000}

\* an argument given, with a value of S
Given(S) == {Some(v) : v \in S}

EstimateArgs ==
    [year_of_construction : {1},
     construction_data : {IwuHeavy},
     number_of_floors : 0..MaxFloors,
     net_leased_area : EstimateAreaInputs,
     residential_layout : Given(0..2),
     neighbour_buildings : Given(0..3),
     attic : Given(0..4),
     cellar : Given(0..4),
     dormer : Given(0..1)]

\* generate_archetype calls on a dwelling of these arguments
EstimateGenerations == {1}

EstimateInit == RInit /\ db = ArchDatabase

ENext ==
    \/ \E p \in EstimateArgs : ConstructDwelling(p)
    \/ Assignments
    \/ gen.count + 1 \in EstimateGenerations /\ CallGenerateArchetype

SpecEstimate == EstimateInit /\ [][ENext]_vars

\* generate_archetype has been called on the dwelling
Estimated == bldg.constructed /\ gen.count > 0

\* the dwelling was constructed with categorical values that are all in
\* their tables
ValidConfiguration ==
    /\ built.residential_layout \in {0, 1}
    /\ built.neighbour_buildings \in {0, 1, 2}
    /\ built.attic \in 0..3
    /\ built.cellar \in 0..3
    /\ built.dormer \in {0, 1}
    /\ bldg.number_of_floors >= 0

\* C28: for a valid configuration (layout 0/1, neighbours 0..2, attic and
\* cellar 0..3, dormer 0/1, number_of_floors >= 0, heated floors > 0) and a
\* positive net leased area the estimated outer wall area is strictly positive
\* and the cellar wall area is not negative; a negative outer wall area comes
\* only from a net leased area that is not positive or from a layout outside
\* its table.  The configuration is the one the dwelling was constructed with.
C28_OuterWallAreaPositive ==
    Estimated =>
        /\ ( /\ ValidConfiguration
             /\ Positive(gen.pre.net_leased_area)
             /\ Positive(bldg.number_of_heated_floors) )
           => /\ gen.err = "ok"
              /\ Positive(bldg.est_outer_wall_area)
              /\ bldg.est_cellar_wall_area[1] >= 0
        /\ (gen.err = "ok" /\ bldg.est_outer_wall_area[1] < 0)
           => \/ ~Positive(gen.pre.net_leased_area)
              \/ built.residential_layout \notin {0, 1}

\* the largest area on the fewest heated floors with a heated cellar, where
\* the cellar wall and the windows take most from the facade
C28_Witness ==
    /\ Estimated /\ gen.err = "ok"
    /\ ValidConfiguration
    /\ gen.pre.net_leased_area = R(1000)
    /\ gen.pre.number_of_floors = 0
    /\ built.cellar = 3
    /\ bldg.number_of_heated_floors = R(1)
    /\ Positive(bldg.est_cellar_wall_area)
    /\ Positive(bldg.est_outer_wall_area)

----------------------------------------------------------------------------
(* The name tables are public dicts of the dwelling: a caller may add a name *)
(* between construction and generation.  Here the caller adds outer wall and *)
(* window names, one of them with an orientation that is no cardinal point.  *)

ExtraOuterWallNames == {NameEntry("Exterior Facade North East", 90, 45),
                        NameEntry("Exterior Facade Yard", 90, 180)}
ExtraWindowNames == {NameEntry("Window Facade North East", 90, 45)}

TableArgs ==
    [year_of_construction : {1},
     construction_data : {IwuHeavy},
     number_of_floors : 1..MaxFloors,
     net_leased_area : Areas,
     residential_layout : {None},
     neighbour_buildings : {None},
     attic : {None},
     cellar : {None},
     dormer : {None}]

\* names[entry.name] = [entry.tilt, entry.orientation]: a new key goes to the
\* end, a key already there keeps its place
SetName(names, entry) ==
    IF \E i \in 1..Len(names) : names[i].name = entry.name
    THEN [i \in 1..Len(names) |->
             IF names[i].name = entry.name THEN entry ELSE names[i]]
    ELSE Append(names, entry)

\* bldg.outer_wall_names[name] = [tilt, orientation]
SetOuterWallName(entry) ==
    /\ bldg.constructed
    /\ bldg' = [bldg EXCEPT !.outer_wall_names = SetName(@, entry)]
    /\ UNCHANGED <<db, elems, mats, nLayers, ncalls, last, gen, procs, prj, built>>

\* bldg.window_names[name] = [tilt, orientation]
SetWindowName(entry) ==
    /\ bldg.constructed
    /\ bldg' = [bldg EXCEPT !.window_names = SetName(@, entry)]
    /\ UNCHANGED <<db, elems, mats, nLayers, ncalls, last, gen, procs, prj, built>>

TNext ==
    \/ \E p \in TableArgs : ConstructDwelling(p)
    \/ \E entry \in ExtraOuterWallNames : SetOuterWallName(entry)
    \/ \E entry \in ExtraWindowNames : SetWindowName(entry)
    \/ Assignments
    \/ CallGenerateArchetype

SpecTables == EstimateInit /\ [][TNext]_vars

\* the entries of a name table whose orientation is no cardinal point
NonCardinal(names) ==
    {n \in 1..Len(names) : ~IsCardinal(names[n].orientation)}

\* zone z holds, for the entry, exactly one element of category t; it has been
\* resolved, and it has the area given
OneResolvedWithArea(z, t, entry, area) ==
    /\ Cardinality(Named(z, t, entry.name)) = 1
    /\ \A k \in Named(z, t, entry.name) :
           /\ LogOf("resolve", z, k) # {}
           /\ bldg.thermal_zones[z].elements[k].orientation = Some(entry.orientation)
           /\ bldg.thermal_zones[z].elements[k].area = area

\* C29: only the orientations 0, 90, 180 and 270 receive a per-orientation
\* area.  For an outer wall or window name of another orientation
\* generate_archetype creates and resolves one element per zone, writes no
\* entry for the orientation to outer_area or window_area, and the commit
\* gives the element no area; the divisor of the wall and window areas is the
\* number of outer wall names counted at construction, whatever the tables
\* hold at generation (gen.pre holds them as they were then).
C29_CardinalOrientationsOnly ==
    (Generated /\ gen.err = "ok") =>
        /\ DictKeys(bldg.window_area) \subseteq Orientations
        /\ DictKeys(bldg.outer_area) \subseteq Orientations \cup {0 - 1, 0 - 2}
        /\ bldg.nr_of_orientation = Len(OuterWallNames)
        /\ \A z \in ZoneIndices :
               /\ \A n \in 1..Len(gen.pre.outer_wall_names) :
                      OneResolvedWithArea(
                          z, OuterWall, gen.pre.outer_wall_names[n],
                          IF n \in NonCardinal(gen.pre.outer_wall_names) THEN None
                          ELSE Some(RDiv(bldg.est_outer_wall_area,
                                         R(Len(OuterWallNames)))))
               /\ \A n \in 1..Len(gen.pre.window_names) :
                      OneResolvedWithArea(
                          z, Window, gen.pre.window_names[n],
                          IF n \in NonCardinal(gen.pre.window_names) THEN None
                          ELSE Some(RDiv(bldg.est_win_area,
                                         R(Len(OuterWallNames)))))

\* generated with six outer wall names and five window names, a north-east
\* wall and a north-east window among them
C29_Witness ==
    /\ Generated /\ gen.err = "ok"
    /\ Len(gen.pre.outer_wall_names) = 6
    /\ Len(gen.pre.window_names) = 5
    /\ NonCardinal(gen.pre.outer_wall_names) # {}
    /\ NonCardinal(gen.pre.window_names) # {}
    /\ \A z \in ZoneIndices :
           Cardinality(OfCategory(z, OuterWall)) = 6
    /\ 45 \notin DictKeys(bldg.outer_area)

----------------------------------------------------------------------------
\* no attribute of the dwelling was assigned between its first and its
\* second generation
UnchangedParameters ==
    \A i \in 1..Len(built.assigned) : built.assigned[i].at # 1

\* generate_archetype has run twice on the dwelling with unchanged parameters,
\* the second time to the end; gen.pre is the dwelling between the two runs
Regenerated == gen.count = 2 /\ gen.err = "ok" /\ UnchangedParameters

\* a zone without the identities of the layers and materials of its elements
ZoneView(zone, ms) ==
    [zone EXCEPT !.elements =
        [k \in 1..Len(zone.elements) |-> ElementView(zone.elements[k], ms)]]

EstimatedAreas ==
    {"est_outer_wall_area", "est_win_area", "est_roof_area",
     "est_ground_floor_area", "est_facade_area", "est_cellar_wall_area",
     "living_area_per_floor", "number_of_heated_floors"}

\* C30: regeneration is idempotent.  A second generate_archetype on the same
\* dwelling with unchanged parameters discards the zones of the first run and
\* produces the same number of zones and elements and the same zone, wall,
\* window, roof and ground floor areas; it starts from the net leased area the
\* zones of the first run added up to, not from 0, and no zone or element of
\* the first run is there twice.
C30_RegenerationIdempotent ==
    Regenerated =>
        /\ gen.pre.net_leased_area # R(0)
        /\ bldg.net_leased_area = gen.pre.net_leased_area
        /\ Len(bldg.thermal_zones) = Len(bldg.zone_area_factors)
        /\ Len(bldg.thermal_zones) = Len(gen.pre.thermal_zones)
        /\ \A z \in ZoneIndices :
               /\ Len(bldg.thermal_zones[z].elements)
                      = Len(gen.pre.thermal_zones[z].elements)
               /\ ZoneView(bldg.thermal_zones[z], mats)
                      = ZoneView(gen.pre.thermal_zones[z], mats)
        /\ bldg.outer_area = gen.pre.outer_area
        /\ bldg.window_area = gen.pre.window_area
        /\ \A f \in EstimatedAreas : bldg[f] = gen.pre[f]

\* a dwelling of two floors and 90 m2 generated twice: thirteen elements in
\* one zone, built anew by the second run
C30_Witness ==
    /\ Regenerated
    /\ bldg.number_of_floors = 2
    /\ gen.pre.net_leased_area = R(90)
    /\ Len(bldg.thermal_zones) = 1
    /\ Len(bldg.thermal_zones[1].elements) = 13
    /\ gen.preLayers > 0
    /\ nLayers = 2 * gen.preLayers

====
